---------------------------- MODULE Spec2Model ----------------------------
(***************************************************************************)
(* A model of revex: the derivative-normalised regular-expression algebra  *)
(* (revex/derivative.py), the DFA built from it and its analyses           *)
(* (revex/dfa.py), and the string generators (revex/generation.py).        *)
(*                                                                         *)
(* Conventions.                                                            *)
(*  - A character is a small integer (1..NumChars); a string is a sequence *)
(*    of characters.                                                       *)
(*  - A term (RegularExpression object) is a tuple whose first element is  *)
(*    the Python class name, followed by the fields of identity_tuple.     *)
(*    The chars of a CharSet (a sorted tuple in the code) are a set.       *)
(*    CharClass (\d, \w, \s) is not modelled.                               *)
(*  - A Python exception raised inside the algebra is the value TYPE_ERROR,*)
(*    which every constructor and method propagates.                       *)
(*  - Floating-point path weights are exact rationals: a normalised vector *)
(*    is a vector of integer numerators over their sum.                    *)
(***************************************************************************)
EXTENDS Integers, Sequences, FiniteSets, Bags, TLC

(***************************************************************************)
(* Bounds of the model.                                                    *)
(***************************************************************************)
NumChars == 2
MaxOps == 2
MaxLen == 3

Chars == 1..NumChars

(***************************************************************************)
(* Generic helpers on sequences and sets.                                  *)
(***************************************************************************)
Range(s) == {s[i] : i \in DOMAIN s}

RECURSIVE SetToSortedSeq(_)
SetToSortedSeq(S) ==
    IF S = {} THEN <<>>
    ELSE LET m == CHOOSE x \in S : \A y \in S : x <= y
         IN <<m>> \o SetToSortedSeq(S \ {m})

RECURSIVE SeqLexLt(_, _)
SeqLexLt(s, t) ==
    IF s = <<>> THEN t # <<>>
    ELSE IF t = <<>> THEN FALSE
    ELSE IF s[1] # t[1] THEN s[1] < t[1]
    ELSE SeqLexLt(Tail(s), Tail(t))

(***************************************************************************)
(* Terms.                                                                  *)
(***************************************************************************)
EMPTY == <<"_Empty">>
EPSILON == <<"_Epsilon">>
DOT == <<"_Dot">>
TYPE_ERROR == <<"TypeError">>

CharSetNew(chars, negated) == <<"CharSet", negated, chars>>

Tag(t) == t[1]
IsConcatenation(t) == Tag(t) = "Concatenation"
IsIntersection(t) == Tag(t) = "Intersection"
IsUnion(t) == Tag(t) = "Union"
IsComplement(t) == Tag(t) = "Complement"
IsStar(t) == Tag(t) = "Star"
IsCharSet(t) == Tag(t) = "CharSet"
IsLookAhead(t) == Tag(t) = "LookAhead"
IsLookBehind(t) == Tag(t) = "LookBehind"
IsError(t) == Tag(t) = "TypeError"

\* type(self).__name__, the first component of identity_tuple, in the order
\* Python gives to these strings.
TagRank(t) ==
    CASE Tag(t) = "CharSet" -> 1
      [] Tag(t) = "Complement" -> 2
      [] Tag(t) = "Concatenation" -> 3
      [] Tag(t) = "Intersection" -> 4
      [] Tag(t) = "LookAhead" -> 5
      [] Tag(t) = "LookBehind" -> 6
      [] Tag(t) = "Star" -> 7
      [] Tag(t) = "Union" -> 8
      [] Tag(t) = "_Dot" -> 9
      [] Tag(t) = "_Empty" -> 10
      [] Tag(t) = "_Epsilon" -> 11

\* RegularExpression.__lt__: identity_tuple compared as Python compares tuples.
RECURSIVE Lt(_, _)
RECURSIVE ChildrenLt(_, _)
ChildrenLt(s, t) ==
    IF s = <<>> THEN t # <<>>
    ELSE IF t = <<>> THEN FALSE
    ELSE IF s[1] # t[1] THEN Lt(s[1], t[1])
    ELSE ChildrenLt(Tail(s), Tail(t))

Lt(a, b) ==
    IF TagRank(a) # TagRank(b) THEN TagRank(a) < TagRank(b)
    ELSE CASE Tag(a) \in {"Concatenation", "Intersection", "Union"} ->
                ChildrenLt(a[2], b[2])
           [] Tag(a) \in {"Complement", "Star"} ->
                a[2] # b[2] /\ Lt(a[2], b[2])
           [] Tag(a) = "CharSet" ->
                IF a[2] # b[2] THEN b[2]
                ELSE SeqLexLt(SetToSortedSeq(a[3]), SetToSortedSeq(b[3]))
           [] Tag(a) \in {"LookAhead", "LookBehind"} ->
                IF a[2] # b[2] THEN Lt(a[2], b[2])
                ELSE a[3] # b[3] /\ Lt(a[3], b[3])
           [] OTHER -> FALSE

\* sorted(children) of a set of terms.
RECURSIVE SortTerms(_)
SortTerms(S) ==
    IF S = {} THEN <<>>
    ELSE LET m == CHOOSE x \in S : \A y \in S \ {x} : Lt(x, y)
         IN <<m>> \o SortTerms(S \ {m})

(***************************************************************************)
(* The smart constructors (the __new__ methods), the operators and the     *)
(* methods accepting / has_lookahead / derivative.                         *)
(*                                                                         *)
(* The methods call one another through Python's dynamic dispatch, which   *)
(* is the one recursive operator Call; the operators right below are the   *)
(* call expressions of the code (Union(a, b), r.derivative(c), a + b, ...) *)
(* and the definitions after them are the bodies.                          *)
(***************************************************************************)
RECURSIVE Call(_, _)

Concatenation(children) == Call("Concatenation", <<children>>)
Intersection(children) == Call("Intersection", <<children>>)
Union(children) == Call("Union", <<children>>)
Complement(regex) == Call("Complement", <<regex>>)
Add(self, other) == Call("__add__", <<self, other>>)
Accepting(t) == Call("accepting", <<t>>)
HasLookahead(t) == Call("has_lookahead", <<t>>)
Derivative(t, char) == Call("derivative", <<t, char>>)
ReduceOr(seq) == Call("reduce_or", <<seq>>)
ReduceAnd(seq) == Call("reduce_and", <<seq>>)

AnyError(children) == \E i \in DOMAIN children : IsError(children[i])

\* RegularExpression.__or__, __and__, __invert__
Or(a, b) == Union(<<a, b>>)
And(a, b) == Intersection(<<a, b>>)
Invert(a) == Complement(a)

\* functools.reduce(operator.or_, seq): raises TypeError on an empty sequence.
ReduceOrBody(seq) ==
    IF seq = <<>> \/ AnyError(seq) THEN TYPE_ERROR
    ELSE IF Len(seq) = 1 THEN seq[1]
    ELSE Or(ReduceOr(SubSeq(seq, 1, Len(seq) - 1)), seq[Len(seq)])

\* functools.reduce(operator.and_, seq)
ReduceAndBody(seq) ==
    IF seq = <<>> \/ AnyError(seq) THEN TYPE_ERROR
    ELSE IF Len(seq) = 1 THEN seq[1]
    ELSE And(ReduceAnd(SubSeq(seq, 1, Len(seq) - 1)), seq[Len(seq)])

\* Star.__new__
StarNew(regex) ==
    IF IsError(regex) THEN TYPE_ERROR
    ELSE IF regex = EMPTY \/ regex = EPSILON THEN regex
    ELSE <<"Star", regex>>

\* LookAhead.__new__
LookAheadNew(lookaround_re, suffix) ==
    IF IsError(lookaround_re) \/ IsError(suffix) THEN TYPE_ERROR
    ELSE IF lookaround_re = EMPTY \/ suffix = EMPTY THEN EMPTY
    ELSE <<"LookAhead", lookaround_re, suffix>>

\* LookBehind.__new__
LookBehindNew(prefix, lookaround_re) ==
    IF IsError(prefix) \/ IsError(lookaround_re) THEN TYPE_ERROR
    ELSE IF lookaround_re = EMPTY \/ prefix = EMPTY THEN EMPTY
    ELSE <<"LookBehind", prefix, lookaround_re>>

RECURSIVE FlattenConcatenation(_)
FlattenConcatenation(children) ==
    IF children = <<>> THEN <<>>
    ELSE (IF IsConcatenation(children[1]) THEN children[1][2] ELSE <<children[1]>>)
         \o FlattenConcatenation(Tail(children))

\* A faulty filter that keeps the EPSILON children of a concatenation.
NotEpsilonKeepsAll(child) == TRUE

NotEpsilon(child) == child # EPSILON

\* LookBehind.collapse_concatenation: a tuple of children (<<TYPE_ERROR>> when
\* it raises).
LookBehindCollapse(children) ==
    IF Len(children) < 2 \/ IsLookBehind(children[1]) THEN children
    ELSE IF \A i \in DOMAIN children : ~IsLookBehind(children[i]) THEN children
    ELSE LET index == CHOOSE i \in DOMAIN children :
                          /\ IsLookBehind(children[i])
                          /\ \A j \in 1..(i - 1) : ~IsLookBehind(children[j])
             child == children[index]
             head == Concatenation(SubSeq(children, 1, index - 1))
             new_lookbehind == LookBehindNew(Add(head, child[2]), child[3])
         IN IF IsError(new_lookbehind) THEN <<TYPE_ERROR>>
            ELSE <<new_lookbehind>> \o SubSeq(children, index + 1, Len(children))

\* LookAhead.collapse_concatenation: a tuple of children (<<TYPE_ERROR>> when
\* it raises).
LookAheadCollapse(children) ==
    IF Len(children) < 2 \/ IsLookAhead(children[Len(children)]) THEN children
    ELSE IF \A i \in DOMAIN children : ~IsLookAhead(children[i]) THEN children
    ELSE LET index == CHOOSE i \in DOMAIN children :
                          /\ IsLookAhead(children[i])
                          /\ \A j \in (i + 1)..Len(children) : ~IsLookAhead(children[j])
             child == children[index]
             tail == Concatenation(SubSeq(children, index + 1, Len(children)))
             new_lookahead == LookAheadNew(child[2], Add(child[3], tail))
         IN IF IsError(new_lookahead) THEN <<TYPE_ERROR>>
            ELSE SubSeq(children, 1, index - 1) \o <<new_lookahead>>

\* Concatenation.__new__
ConcatenationNew(children) ==
    IF AnyError(children) THEN TYPE_ERROR
    ELSE LET flattened_children == FlattenConcatenation(children)
         IN IF EMPTY \in Range(flattened_children) THEN EMPTY
            ELSE LET c1 == SelectSeq(flattened_children, NotEpsilon)
                     c2 == LookBehindCollapse(c1)
                     c3 == IF AnyError(c2) THEN c2 ELSE LookAheadCollapse(c2)
                 IN IF AnyError(c3) THEN TYPE_ERROR
                    ELSE IF c3 = <<>> THEN EPSILON
                    ELSE IF Len(c3) = 1 THEN c3[1]
                    ELSE <<"Concatenation", c3>>

\* Intersection.__new__
IntersectionNew(children_tuple) ==
    IF AnyError(children_tuple) THEN TYPE_ERROR
    ELSE
    LET children == UNION {IF IsIntersection(c) THEN Range(c[2]) ELSE {c} :
                               c \in Range(children_tuple)}
    IN IF EMPTY \in children THEN EMPTY
       ELSE IF EPSILON \in children
       THEN (IF \A child \in children : Accepting(child) THEN EPSILON ELSE EMPTY)
       ELSE
       LET charsets == {c \in children : IsCharSet(c) /\ ~c[2]}
           negated_charsets == {c \in children : IsCharSet(c) /\ c[2]}
           others == (children \ charsets) \ negated_charsets
           charset_chars == {x \in UNION {c[3] : c \in charsets} :
                                \A c \in charsets : x \in c[3]}
           negated_chars == UNION {c[3] : c \in negated_charsets}
           chars == IF negated_charsets # {} THEN charset_chars \ negated_chars
                    ELSE charset_chars
       IN IF charsets # {} /\ negated_charsets # {} /\ chars = {} THEN EMPTY
          ELSE IF charsets # {}
          THEN LET acceptable_chars ==
                       {char \in chars :
                            \A child \in others : Accepting(Derivative(child, char))}
               IN IF \E char \in chars, child \in others :
                         IsError(Derivative(child, char))
                  THEN TYPE_ERROR
                  ELSE IF acceptable_chars = {} THEN EMPTY
                  ELSE CharSetNew(acceptable_chars, FALSE)
          ELSE LET children2 == IF negated_charsets # {}
                                THEN others \cup {CharSetNew(negated_chars, TRUE)}
                                ELSE others
               IN IF Cardinality(children2) = 1
                  THEN CHOOSE c \in children2 : TRUE
                  ELSE <<"Intersection", SortTerms(children2)>>

\* Union.__new__
UnionNew(children) ==
    IF AnyError(children) THEN TYPE_ERROR
    ELSE
    LET flattened0 == UNION {IF IsUnion(c) THEN Range(c[2]) ELSE {c} :
                                 c \in Range(children)}
    IN IF flattened0 = {EMPTY} THEN EMPTY
       ELSE
       LET flattened1 == IF EMPTY \in Range(children)
                         THEN flattened0 \ {EMPTY} ELSE flattened0
           char_literals == {c \in flattened1 : IsCharSet(c) /\ ~c[2]}
           flattened2 ==
               IF char_literals # {}
               THEN (flattened1 \ char_literals)
                        \cup {CharSetNew(UNION {c[3] : c \in char_literals}, FALSE)}
               ELSE flattened1
           sorted == SortTerms(flattened2)
       IN IF Len(sorted) = 1 THEN sorted[1] ELSE <<"Union", sorted>>

\* Complement.__new__
ComplementNew(regex) ==
    IF IsError(regex) THEN TYPE_ERROR
    ELSE IF IsIntersection(regex)
    THEN ReduceOr([i \in DOMAIN regex[2] |-> Invert(regex[2][i])])
    ELSE IF IsUnion(regex)
    THEN ReduceAnd([i \in DOMAIN regex[2] |-> Invert(regex[2][i])])
    ELSE IF IsComplement(regex) THEN regex[2]
    ELSE <<"Complement", regex>>

\* The has_lookahead property of each class.
HasLookaheadBody(t) ==
    CASE IsConcatenation(t) -> HasLookahead(t[2][Len(t[2])])
      [] IsIntersection(t) \/ IsUnion(t) ->
            \E i \in DOMAIN t[2] : HasLookahead(t[2][i])
      [] IsComplement(t) \/ IsStar(t) -> HasLookahead(t[2])
      [] IsLookAhead(t) -> TRUE
      [] OTHER -> FALSE

NoLookahead(r) == ~HasLookahead(r)

\* Union.__add__
UnionAdd(self, other) ==
    LET lookaheads == SelectSeq(self[2], HasLookahead)
        non_lookaheads == SelectSeq(self[2], NoLookahead)
    IN IF lookaheads # <<>>
       THEN Or(Union([i \in DOMAIN lookaheads |-> Add(lookaheads[i], other)]),
               Add(Union(non_lookaheads), other))
       ELSE Concatenation(<<self, other>>)

\* LookAhead.__add__
LookAheadAdd(self, other) == LookAheadNew(self[2], Add(self[3], other))

\* self + other, dispatched on the class of self (RegularExpression.__add__
\* unless the class overrides it).
AddBody(self, other) ==
    IF IsError(self) \/ IsError(other) THEN TYPE_ERROR
    ELSE IF IsUnion(self) THEN UnionAdd(self, other)
    ELSE IF IsLookAhead(self) THEN LookAheadAdd(self, other)
    ELSE Concatenation(<<self, other>>)

\* The accepting property / attribute (nullable) of each class.
AcceptingBody(t) ==
    CASE t = EPSILON -> TRUE
      [] IsConcatenation(t) \/ IsIntersection(t) ->
            \A i \in DOMAIN t[2] : Accepting(t[2][i])
      [] IsUnion(t) -> \E i \in DOMAIN t[2] : Accepting(t[2][i])
      [] IsComplement(t) -> ~Accepting(t[2])
      [] IsStar(t) -> TRUE
      [] IsLookAhead(t) \/ IsLookBehind(t) -> Accepting(t[2]) /\ Accepting(t[3])
      [] OTHER -> FALSE

\* Concatenation.derivative: the loop from child i on, `derivative` being the
\* disjunction built so far.
RECURSIVE ConcatenationDerivative(_, _, _, _)
ConcatenationDerivative(children, i, derivative, char) ==
    IF i > Len(children) THEN derivative
    ELSE LET child == children[i]
             d == Or(derivative,
                     Add(Derivative(child, char),
                         Concatenation(SubSeq(children, i + 1, Len(children)))))
         IN IF ~Accepting(child) THEN d
            ELSE ConcatenationDerivative(children, i + 1, d, char)

\* CharSet.derivative
CharSetDerivative(t, char) ==
    IF t[2] THEN (IF char \in t[3] THEN EMPTY ELSE EPSILON)
    ELSE (IF char \in t[3] THEN EPSILON ELSE EMPTY)

\* Intersection.derivative
IntersectionDerivative(t, char) ==
    ReduceAnd([i \in DOMAIN t[2] |-> Derivative(t[2][i], char)])

\* Union.derivative
UnionDerivative(t, char) ==
    ReduceOr([i \in DOMAIN t[2] |-> Derivative(t[2][i], char)])

\* Complement.derivative
ComplementDerivative(t, char) == Invert(Derivative(t[2], char))

\* A faulty Star.derivative that forgets the repetition after one pass.
StarDerivativeOnce(t, char) == Derivative(t[2], char)

\* Star.derivative
StarDerivative(t, char) == Add(Derivative(t[2], char), t)

\* LookAhead.derivative
LookAheadDerivative(t, char) ==
    LookAheadNew(Derivative(t[2], char), Derivative(t[3], char))

\* LookBehind.derivative
LookBehindDerivative(t, char) ==
    LookBehindNew(Derivative(t[2], char), Derivative(t[3], char))

\* t.derivative(char), dispatched on the class of t.
DerivativeBody(t, char) ==
    CASE t = EMPTY -> EMPTY
      [] t = EPSILON -> EMPTY
      [] t = DOT -> EPSILON
      [] IsCharSet(t) -> CharSetDerivative(t, char)
      [] IsConcatenation(t) -> ConcatenationDerivative(t[2], 1, EMPTY, char)
      [] IsIntersection(t) -> IntersectionDerivative(t, char)
      [] IsUnion(t) -> UnionDerivative(t, char)
      [] IsComplement(t) -> ComplementDerivative(t, char)
      [] IsStar(t) -> StarDerivative(t, char)
      [] IsLookAhead(t) -> LookAheadDerivative(t, char)
      [] IsLookBehind(t) -> LookBehindDerivative(t, char)
      [] OTHER -> TYPE_ERROR

CallBody(f, args) ==
    CASE f = "Concatenation" -> ConcatenationNew(args[1])
      [] f = "Intersection" -> IntersectionNew(args[1])
      [] f = "Union" -> UnionNew(args[1])
      [] f = "Complement" -> ComplementNew(args[1])
      [] f = "__add__" -> AddBody(args[1], args[2])
      [] f = "accepting" -> AcceptingBody(args[1])
      [] f = "has_lookahead" -> HasLookaheadBody(args[1])
      [] f = "derivative" -> DerivativeBody(args[1], args[2])
      [] f = "reduce_or" -> ReduceOrBody(args[1])
      [] f = "reduce_and" -> ReduceAndBody(args[1])

\* A call evaluates its arguments once, before the body runs (call by value).
Call(f, args) == CHOOSE result \in {CallBody(f, a) : a \in {args}} : TRUE

\* RegularExpression.match: the loop is MatchStep below; this is its result.
RECURSIVE Match(_, _)
Match(regex, string) ==
    IF string = <<>> THEN Accepting(regex)
    ELSE Match(Derivative(regex, Head(string)), Tail(string))

(***************************************************************************)
(* revex/dfa.py: the DFA object.                                           *)
(*   start     the start state                                             *)
(*   node      the graph's nodes: state -> its 'accepting' attribute       *)
(*   delta     state -> (char -> next state); a state without an entry has *)
(*             no transitions                                              *)
(*   edges     the graph's edges, a bag of <<from, to, transition>>        *)
(*   alphabet  a sequence of characters                                    *)
(***************************************************************************)
HasNode(d, state) == state \in DOMAIN d.node

\* A faulty lookup that forgets the transitions a state already has.
RowForgets(d, state) == <<>>

\* self.delta[state], a defaultdict(dict)
Row(d, state) == IF state \in DOMAIN d.delta THEN d.delta[state] ELSE <<>>

\* A faulty DFA.add_state that drops the accepting attribute.
AddStateNotAccepting(d, state, accepting) ==
    [d EXCEPT !.node = (state :> FALSE) @@ d.node]

\* DFA.add_state
AddState(d, state, accepting) ==
    [d EXCEPT !.node = (state :> accepting) @@ d.node]

\* DFA.__init__
DFANew(start, start_accepting, alphabet) ==
    AddState([start |-> start, node |-> <<>>, delta |-> <<>>,
              edges |-> EmptyBag, alphabet |-> alphabet],
             start, start_accepting)

\* A faulty check that lets a transition to or from a state that was not
\* added pass.
AddTransitionRaisesOnConflict(d, from_state, to_state, char) ==
    /\ char \in DOMAIN Row(d, from_state)
    /\ Row(d, from_state)[char] # to_state

\* DFA.add_transition raises ValueError
AddTransitionRaises(d, from_state, to_state, char) ==
    \/ ~(HasNode(d, from_state) /\ HasNode(d, to_state))
    \/ /\ char \in DOMAIN Row(d, from_state)
       /\ Row(d, from_state)[char] # to_state

\* A faulty DFA.add_transition that records a self-loop instead of the target.
AddTransitionToSelf(d, from_state, to_state, char) ==
    IF char \in DOMAIN Row(d, from_state) THEN d
    ELSE [d EXCEPT
            !.delta = (from_state :> ((char :> from_state) @@ Row(d, from_state)))
                          @@ d.delta,
            !.edges = d.edges (+) SetToBag({<<from_state, from_state, char>>})]

\* DFA.add_transition when it returns
AddTransition(d, from_state, to_state, char) ==
    IF char \in DOMAIN Row(d, from_state) THEN d
    ELSE [d EXCEPT
            !.delta = (from_state :> ((char :> to_state) @@ Row(d, from_state)))
                          @@ d.delta,
            !.edges = d.edges (+) SetToBag({<<from_state, to_state, char>>})]

(***************************************************************************)
(* RegularExpression.as_dfa: the body of `for char in alphabet` from the   *)
(* i-th character on, for the popped `node`. The result is the DFA, the    *)
(* worklist and whether an exception was raised.                           *)
(***************************************************************************)
\* A faulty as_dfa test that never recognises a state it has seen before.
AsDfaAlwaysNew(d, derivative) == TRUE

\* `if not dfa.has_node(derivative)`: the derivative is a state not seen yet
AsDfaIsNew(d, derivative) == ~HasNode(d, derivative)

RECURSIVE AsDfaForChars(_, _, _, _)
AsDfaForChars(d, nodes, node, i) ==
    IF i > Len(d.alphabet) THEN [dfa |-> d, nodes |-> nodes, raised |-> FALSE]
    ELSE LET char == d.alphabet[i]
             derivative == Derivative(node, char)
         IN IF IsError(derivative)
            THEN [dfa |-> d, nodes |-> nodes, raised |-> TRUE]
            ELSE LET new == AsDfaIsNew(d, derivative)
                     nodes2 == IF new THEN nodes \cup {derivative} ELSE nodes
                     d2 == IF new
                           THEN AddState(d, derivative, Accepting(derivative))
                           ELSE d
                 IN IF AddTransitionRaises(d2, node, derivative, char)
                    THEN [dfa |-> d2, nodes |-> nodes2, raised |-> TRUE]
                    ELSE AsDfaForChars(AddTransition(d2, node, derivative, char),
                                       nodes2, node, i + 1)

\* The alphabets a caller passes: the sequences of distinct characters.
Alphabets ==
    {a \in UNION {[1..n -> Chars] : n \in 1..NumChars} :
        \A i, j \in DOMAIN a : i # j => a[i] # a[j]}

\* No generator has been constructed, and no operation with locals is running.
NoGen == [distribution_type |-> "None"]

NoCall == [op |-> "None"]

NoDFA == [start |-> EMPTY, node |-> <<>>, delta |-> <<>>,
          edges |-> EmptyBag, alphabet |-> <<>>]

(***************************************************************************)
(* State.                                                                  *)
(*   built   the term the caller has built so far with the constructors    *)
(*   ops     how many constructor calls built it                           *)
(*   regex   the local variable of RegularExpression.match                 *)
(*   string  the characters of the input that match has consumed           *)
(*   dfa     the DFA that as_dfa builds                                    *)
(*   nodes   the worklist of as_dfa                                        *)
(*   node    the local variable of DFA.match                               *)
(*   gen     the generator object (revex/generation.py)                    *)
(*   call    the local variables of the running operation                  *)
(*   pc      the position of the running operation                         *)
(***************************************************************************)
VARIABLES built, ops, regex, string, dfa, nodes, node, gen, call, pc

vars == <<built, ops, regex, string, dfa, nodes, node, gen, call, pc>>

(***************************************************************************)
(* Building terms: the caller applies one operator or constructor to the   *)
(* term built so far and a leaf term.                                      *)
(***************************************************************************)
PlainLeaves ==
    {EMPTY, EPSILON, DOT,
     CharSetNew({1}, FALSE), CharSetNew({2}, FALSE), CharSetNew({1}, TRUE)}

\* r + x
ApplyAddRight(leaves, bound) ==
    /\ pc = "build" /\ ops < bound /\ ~IsError(built)
    /\ \E x \in leaves : built' = Add(built, x)
    /\ ops' = ops + 1
    /\ regex' = built'
    /\ UNCHANGED <<string, dfa, nodes, node, gen, call, pc>>

\* x + r
ApplyAddLeft(leaves, bound) ==
    /\ pc = "build" /\ ops < bound /\ ~IsError(built)
    /\ \E x \in leaves : built' = Add(x, built)
    /\ ops' = ops + 1
    /\ regex' = built'
    /\ UNCHANGED <<string, dfa, nodes, node, gen, call, pc>>

\* r | x
ApplyOr(leaves, bound) ==
    /\ pc = "build" /\ ops < bound /\ ~IsError(built)
    /\ \E x \in leaves : built' = Or(built, x)
    /\ ops' = ops + 1
    /\ regex' = built'
    /\ UNCHANGED <<string, dfa, nodes, node, gen, call, pc>>

\* r & x
ApplyAnd(leaves, bound) ==
    /\ pc = "build" /\ ops < bound /\ ~IsError(built)
    /\ \E x \in leaves : built' = And(built, x)
    /\ ops' = ops + 1
    /\ regex' = built'
    /\ UNCHANGED <<string, dfa, nodes, node, gen, call, pc>>

\* ~r
ApplyInvert(bound) ==
    /\ pc = "build" /\ ops < bound /\ ~IsError(built)
    /\ built' = Invert(built)
    /\ ops' = ops + 1
    /\ regex' = built'
    /\ UNCHANGED <<string, dfa, nodes, node, gen, call, pc>>

\* Star(r)
ApplyStar(bound) ==
    /\ pc = "build" /\ ops < bound /\ ~IsError(built)
    /\ built' = StarNew(built)
    /\ ops' = ops + 1
    /\ regex' = built'
    /\ UNCHANGED <<string, dfa, nodes, node, gen, call, pc>>

\* LookAhead(r, x), as RegexVisitor.visit_lookahead builds (?=...) and (?!...)
ApplyLookAhead(leaves, bound) ==
    /\ pc = "build" /\ ops < bound /\ ~IsError(built)
    /\ \E x \in leaves : built' = LookAheadNew(built, x)
    /\ ops' = ops + 1
    /\ regex' = built'
    /\ UNCHANGED <<string, dfa, nodes, node, gen, call, pc>>

\* LookBehind(x, r), as RegexVisitor.visit_lookahead builds (?<=...) and (?<!...)
ApplyLookBehind(leaves, bound) ==
    /\ pc = "build" /\ ops < bound /\ ~IsError(built)
    /\ \E x \in leaves : built' = LookBehindNew(x, built)
    /\ ops' = ops + 1
    /\ regex' = built'
    /\ UNCHANGED <<string, dfa, nodes, node, gen, call, pc>>

(***************************************************************************)
(* RegularExpression.match(string): one iteration of its loop,             *)
(*     regex = regex.derivative(string[i:i+1]).                            *)
(* The character is the next one of the input; the input is any string of  *)
(* at most MaxLen characters. The result, were the input to end here, is   *)
(* regex.accepting.                                                        *)
(***************************************************************************)
MatchStep ==
    /\ pc \in {"build", "match"}
    /\ ~IsError(regex)
    /\ Len(string) < MaxLen
    /\ \E char \in Chars :
          /\ regex' = Derivative(regex, char)
          /\ string' = Append(string, char)
    /\ pc' = "match"
    /\ UNCHANGED <<built, ops, dfa, nodes, node, gen, call>>

(***************************************************************************)
(* RegularExpression.as_dfa(alphabet).                                     *)
(***************************************************************************)
\* Lines 55-60: the DFA with its start state, and the worklist.
AsDfaStart ==
    /\ pc = "build"
    /\ ~IsError(built)
    /\ \E alphabet \in Alphabets :
          dfa' = DFANew(built, Accepting(built), alphabet)
    /\ nodes' = {built}
    /\ pc' = "as_dfa"
    /\ UNCHANGED <<built, ops, regex, string, node, gen, call>>

\* One iteration of `while nodes`: nodes.pop() takes any element of the set.
AsDfaLoop ==
    /\ pc = "as_dfa"
    /\ nodes # {}
    /\ \E popped \in nodes :
          LET r == AsDfaForChars(dfa, nodes \ {popped}, popped, 1)
          IN /\ dfa' = r.dfa
             /\ nodes' = r.nodes
             /\ pc' = IF r.raised THEN "raised" ELSE "as_dfa"
    /\ UNCHANGED <<built, ops, regex, string, node, gen, call>>

\* `return dfa`; the caller may then call dfa.match, which starts at dfa.start.
AsDfaReturn ==
    /\ pc = "as_dfa"
    /\ nodes = {}
    /\ pc' = "dfa"
    /\ node' = dfa.start
    /\ UNCHANGED <<built, ops, regex, string, dfa, nodes, gen, call>>

(***************************************************************************)
(* DFA.match(string): one iteration of its loop,                           *)
(*     node = self.delta[node][char],                                      *)
(* for an input over the DFA's alphabet. The result, were the input to end *)
(* here, is self.node[node]['accepting'].                                  *)
(***************************************************************************)
DfaMatchStep ==
    /\ pc = "dfa"
    /\ Len(string) < MaxLen
    /\ \E i \in DOMAIN dfa.alphabet :
          LET char == dfa.alphabet[i]
          IN /\ char \in DOMAIN Row(dfa, node)
             /\ node' = dfa.delta[node][char]
             /\ string' = Append(string, char)
    /\ UNCHANGED <<built, ops, regex, dfa, nodes, gen, call, pc>>

InitAlgebra ==
    /\ built \in PlainLeaves
    /\ ops = 0
    /\ regex = built
    /\ string = <<>>
    /\ dfa = NoDFA
    /\ nodes = {}
    /\ node = EMPTY
    /\ gen = NoGen
    /\ call = NoCall
    /\ pc = "build"

NextAlgebra ==
    \/ ApplyAddRight(PlainLeaves, MaxOps)
    \/ ApplyAddLeft(PlainLeaves, MaxOps)
    \/ ApplyOr(PlainLeaves, MaxOps)
    \/ ApplyAnd(PlainLeaves, MaxOps)
    \/ ApplyInvert(MaxOps)
    \/ ApplyStar(MaxOps)
    \/ MatchStep
    \/ AsDfaStart
    \/ AsDfaLoop
    \/ AsDfaReturn
    \/ DfaMatchStep

Spec == InitAlgebra /\ [][NextAlgebra]_vars

(***************************************************************************)
(* as_dfa runs to completion once called: its loop is not starved. This is *)
(* weak fairness of AsDfaLoop and AsDfaReturn. AsDfaLoop is enabled        *)
(* exactly when the worklist is not empty (an iteration removes the popped *)
(* node, which is already a state and so is never put back), so its        *)
(* fairness is written with that guard in place of ENABLED.                *)
(***************************************************************************)
AsDfaLoopEnabled == pc = "as_dfa" /\ nodes # {}

AsDfaLoopFair == []<>(~AsDfaLoopEnabled) \/ []<><<AsDfaLoop>>_vars

SpecFair == Spec /\ AsDfaLoopFair /\ WF_vars(AsDfaReturn)

(***************************************************************************)
(* Reference semantics: the language a term denotes, by structural         *)
(* recursion on the term and independent of derivative and accepting.      *)
(*   InLang(t, w)       w is in L(t)                                       *)
(*   InConcat(cs, i, w) w is in L(cs[i]) L(cs[i+1]) ... L(cs[Len(cs)])     *)
(* Lookaround terms have no language of their own (their meaning depends   *)
(* on the text around them) and are outside InLang's domain.               *)
(***************************************************************************)
StringsUpTo(n) == UNION {[1..k -> Chars] : k \in 0..n}

RECURSIVE InLang(_, _)
RECURSIVE InConcat(_, _, _)
InConcat(cs, i, w) ==
    IF i > Len(cs) THEN w = <<>>
    ELSE \E k \in 0..Len(w) :
            /\ InLang(cs[i], SubSeq(w, 1, k))
            /\ InConcat(cs, i + 1, SubSeq(w, k + 1, Len(w)))

InLang(t, w) ==
    CASE Tag(t) = "_Empty" -> FALSE
      [] Tag(t) = "_Epsilon" -> w = <<>>
      [] Tag(t) = "_Dot" -> Len(w) = 1
      [] Tag(t) = "CharSet" -> Len(w) = 1 /\ ((w[1] \in t[3]) # t[2])
      [] Tag(t) = "Concatenation" -> InConcat(t[2], 1, w)
      [] Tag(t) = "Intersection" -> \A i \in DOMAIN t[2] : InLang(t[2][i], w)
      [] Tag(t) = "Union" -> \E i \in DOMAIN t[2] : InLang(t[2][i], w)
      [] Tag(t) = "Complement" -> ~InLang(t[2], w)
      [] Tag(t) = "Star" ->
            \/ w = <<>>
            \/ \E k \in 1..Len(w) :
                  /\ InLang(t[2], SubSeq(w, 1, k))
                  /\ InLang(t, SubSeq(w, k + 1, Len(w)))

(***************************************************************************)
(* C1: for a term R without lookaround and a string w, R.match(w) is true  *)
(* exactly when w is in L(R): after match has consumed `string` from the   *)
(* term `built`, the term it holds is nullable iff `string` is in          *)
(* L(built); and that term denotes the derivative language, i.e. it        *)
(* contains a continuation v iff L(built) contains string.v.               *)
(***************************************************************************)
C1_MatchDecidesLanguage ==
    pc \in {"build", "match"} =>
        /\ Accepting(regex) = InLang(built, string)
        /\ Match(built, string) = Accepting(regex)
        /\ \A v \in StringsUpTo(MaxLen - Len(string)) :
              InLang(regex, v) = InLang(built, string \o v)

\* match has consumed a string of full length through a starred or
\* concatenated term and accepts
C1_Witness ==
    /\ pc = "match"
    /\ Len(string) = MaxLen
    /\ ops = MaxOps
    /\ IsStar(built) \/ IsConcatenation(built)
    /\ Accepting(regex)
    /\ InLang(built, string)

(***************************************************************************)
(* C2: for every string w over the alphabet A, R.as_dfa(A).match(w) equals *)
(* R.match(w): the accepting attribute of the state DFA.match has reached  *)
(* after `string` is the result of `built`.match(string).                  *)
(***************************************************************************)
C2_DfaMatchEqualsMatch ==
    pc = "dfa" =>
        /\ HasNode(dfa, node)
        /\ dfa.node[node] = Match(built, string)

\* DFA.match has walked a full-length string through a DFA of several states
\* and accepts it
C2_Witness ==
    /\ pc = "dfa"
    /\ Len(string) = MaxLen
    /\ Cardinality(DOMAIN dfa.node) >= 3
    /\ node # dfa.start
    /\ dfa.node[node]
    /\ Match(built, string)

(***************************************************************************)
(* C3: the DFA that as_dfa returns is closed and total: every state has    *)
(* exactly one transition for every alphabet symbol, every target is a     *)
(* state of the DFA, the start state is the input term, and the accepting  *)
(* attribute of every state s is nullable(s).                              *)
(***************************************************************************)
C3_AsDfaClosedTotal ==
    pc = "dfa" =>
        /\ dfa.start = built
        /\ HasNode(dfa, dfa.start)
        /\ \A s \in DOMAIN dfa.node :
              /\ dfa.node[s] = Accepting(s)
              /\ DOMAIN Row(dfa, s) = Range(dfa.alphabet)
              /\ \A char \in Range(dfa.alphabet) :
                    /\ HasNode(dfa, dfa.delta[s][char])
                    /\ CopiesIn(<<s, dfa.delta[s][char], char>>, dfa.edges) = 1
        /\ \A e \in BagToSet(dfa.edges) :
              /\ HasNode(dfa, e[1])
              /\ e[3] \in Range(dfa.alphabet)
              /\ e[2] = dfa.delta[e[1]][e[3]]

\* as_dfa has returned a DFA with several states, accepting and not
C3_Witness ==
    /\ pc = "dfa"
    /\ Cardinality(DOMAIN dfa.node) >= 4
    /\ Len(dfa.alphabet) = NumChars
    /\ \E s, t \in DOMAIN dfa.node : dfa.node[s] /\ ~dfa.node[t]

MaxOpsLook == 2

LookLeaves ==
    PlainLeaves \cup {LookAheadNew(CharSetNew({1}, FALSE), EPSILON),
                      LookAheadNew(CharSetNew({2}, FALSE), EPSILON),
                      LookBehindNew(EPSILON, CharSetNew({1}, FALSE))}

InitLookaround ==
    /\ built \in LookLeaves
    /\ ops = 0
    /\ regex = built
    /\ string = <<>>
    /\ dfa = NoDFA
    /\ nodes = {}
    /\ node = EMPTY
    /\ gen = NoGen
    /\ call = NoCall
    /\ pc = "build"

NextLookaround ==
    \/ ApplyAddRight(LookLeaves, MaxOpsLook)
    \/ ApplyAddLeft(LookLeaves, MaxOpsLook)
    \/ ApplyOr(LookLeaves, MaxOpsLook)
    \/ ApplyAnd(LookLeaves, MaxOpsLook)
    \/ ApplyInvert(MaxOpsLook)
    \/ ApplyStar(MaxOpsLook)
    \/ ApplyLookAhead(LookLeaves, MaxOpsLook)
    \/ ApplyLookBehind(LookLeaves, MaxOpsLook)
    \/ MatchStep

SpecLookaround == InitLookaround /\ [][NextLookaround]_vars

(***************************************************************************)
(* C5: the algebra is total: no constructor or operator applied to         *)
(* well-formed terms, and no derivative taken by match, raises a runtime   *)
(* error, also for a union of lookahead terms that is then concatenated    *)
(* with another term.                                                      *)
(***************************************************************************)
C5_AlgebraNeverRaises == ~IsError(built) /\ ~IsError(regex)

(***************************************************************************)
(* revex/generation.py. The generators work on a DFA whose states are the  *)
(* integers 0..n-1 with 0 the start state. Floating-point weights are      *)
(* modelled as exact rationals <<numerator, denominator>> in lowest terms  *)
(* (rounding, underflow and overflow are not modelled).                    *)
(***************************************************************************)
MaxStates == 3
MaxGenLen == 3

RECURSIVE GCD(_, _)
GCD(a, b) == IF b = 0 THEN a ELSE GCD(b, a % b)

Rat(n, d) == LET g == GCD(n, d) IN <<n \div g, d \div g>>

Zero == <<0, 1>>
One == <<1, 1>>
RatAdd(x, y) == Rat(x[1] * y[2] + y[1] * x[2], x[2] * y[2])
RatMul(x, y) == Rat(x[1] * y[1], x[2] * y[2])
RatDiv(x, y) == Rat(x[1] * y[2], x[2] * y[1])
RatLt(x, y) == x[1] * y[2] < y[1] * x[2]
RatAbsDiff(x, y) ==
    LET a == x[1] * y[2]
        b == y[1] * x[2]
    IN Rat(IF a < b THEN b - a ELSE a - b, x[2] * y[2])

\* sum(f[lo], ..., f[hi]) of rationals
RECURSIVE RatSum(_, _, _)
RatSum(f, lo, hi) == IF lo > hi THEN Zero ELSE RatAdd(f[lo], RatSum(f, lo + 1, hi))

\* The alphabet of the generators' DFAs.
Alphabet == [i \in 1..NumChars |-> i]

(***************************************************************************)
(* The total DFAs with states 0..n-1, n <= MaxStates, built with the DFA   *)
(* constructor, add_state and add_transition as IntegerDFA.__init__ does.  *)
(***************************************************************************)
RECURSIVE IntegerDFAStates(_, _, _, _)
IntegerDFAStates(d, state, n, accepting) ==
    IF state >= n THEN d
    ELSE IntegerDFAStates(AddState(d, state, state \in accepting),
                          state + 1, n, accepting)

\* The transitions, the k-th being that of state k \div |alphabet| on
\* character k % |alphabet|.
RECURSIVE IntegerDFATransitions(_, _, _, _)
IntegerDFATransitions(d, k, n, delta) ==
    IF k >= n * Len(d.alphabet) THEN d
    ELSE LET from_node == k \div Len(d.alphabet)
             char == d.alphabet[(k % Len(d.alphabet)) + 1]
         IN IntegerDFATransitions(
                AddTransition(d, from_node, delta[from_node][char], char),
                k + 1, n, delta)

IntegerDFAOver(alphabet, n, accepting, delta) ==
    IntegerDFATransitions(
        IntegerDFAStates(DFANew(0, 0 \in accepting, alphabet), 0, n, accepting),
        0, n, delta)

IntegerDFA(n, accepting, delta) == IntegerDFAOver(Alphabet, n, accepting, delta)

IntegerDFAs ==
    UNION {{IntegerDFA(n, accepting, delta) :
                accepting \in SUBSET (0..(n - 1)),
                delta \in [0..(n - 1) -> [Chars -> 0..(n - 1)]]} :
           n \in 1..MaxStates}

(***************************************************************************)
(* PathWeights.                                                            *)
(*   lists                 the list of lists: lists[state][n + 1] is the   *)
(*                         weight of paths of length n from state          *)
(*   longest_path_length   the longest length computed so far              *)
(*   matrix                the adjacency matrix of the graph with the sink *)
(*   vects                 vects[n + 1] is the vector for length n         *)
(***************************************************************************)
\* The number of edges from i to j in the DFA's graph.
RECURSIVE EdgeCount(_, _, _, _)
EdgeCount(d, i, j, k) ==
    IF k > Len(d.alphabet) THEN 0
    ELSE CopiesIn(<<i, j, d.alphabet[k]>>, d.edges) + EdgeCount(d, i, j, k + 1)

\* matrix.dot(vect)
Dot(matrix, vect) ==
    [i \in DOMAIN matrix |->
        RatSum([j \in DOMAIN vect |-> RatMul(<<matrix[i][j], 1>>, vect[j])],
               0, Cardinality(DOMAIN vect) - 1)]

\* PathWeights.normalize_vector
NormalizeVector(vector) ==
    LET total == RatSum(vector, 0, Cardinality(DOMAIN vector) - 1)
    IN IF total = Zero THEN vector
       ELSE [i \in DOMAIN vector |-> RatDiv(vector[i], total)]

\* PathWeights.__init__
PathWeightsNew(d) ==
    LET n == Cardinality(DOMAIN d.node)
        states == 0..(n - 1)
        accepting == {state \in states : d.node[state]}
        number_of_accepting_states ==
            IF accepting = {} THEN 1 ELSE Cardinality(accepting)
        sink == n
        \* the sink becomes a node of the graph when an edge to it is added
        size == IF accepting = {} THEN n ELSE n + 1
        matrix == [i \in 0..(size - 1) |-> [j \in 0..(size - 1) |->
                      IF i = sink THEN 0
                      ELSE IF j = sink THEN (IF d.node[i] THEN 1 ELSE 0)
                      ELSE EdgeCount(d, i, j, 1)]]
        vect == [j \in 0..(size - 1) |-> IF j = size - 1 THEN One ELSE Zero]
    IN [lists |-> [state \in states |->
                      <<Rat(IF d.node[state] THEN 1 ELSE 0,
                            number_of_accepting_states)>>],
        longest_path_length |-> 0,
        matrix |-> matrix,
        vects |-> <<NormalizeVector(Dot(matrix, vect))>>]

\* PathWeights.__getitem__: one iteration of
\* `while path_length > self.longest_path_length`
PathWeightsExtend(pw, d) ==
    LET states == DOMAIN pw.lists
        path_weight ==
            [state \in states |->
                RatSum([k \in 1..Len(d.alphabet) |->
                           pw.lists[d.delta[state][d.alphabet[k]]]
                                   [pw.longest_path_length + 1]],
                       1, Len(d.alphabet))]
        total == RatSum(path_weight, 0, Cardinality(states) - 1)
    IN [pw EXCEPT
          !.lists = [state \in states |->
                        Append(pw.lists[state],
                               IF RatLt(Zero, total)
                               THEN RatDiv(path_weight[state], total)
                               ELSE path_weight[state])],
          !.longest_path_length = pw.longest_path_length + 1,
          !.vects = Append(pw.vects,
                           NormalizeVector(Dot(pw.matrix, pw.vects[Len(pw.vects)])))]

RECURSIVE PathWeightsExtendTo(_, _, _)
PathWeightsExtendTo(pw, d, path_length) ==
    IF path_length > pw.longest_path_length
    THEN PathWeightsExtendTo(PathWeightsExtend(pw, d), d, path_length)
    ELSE pw

\* `assert abs(old_ret - new_ret) < 0.001` holds
WeightsAgree(old_ret, new_ret) == RatLt(RatAbsDiff(old_ret, new_ret), <<1, 1000>>)

\* PathWeights.__getitem__((state, path_length)): the extended weights, the
\* value returned, and whether the assertion failed (AssertionError).
PathWeightsGet(pw, d, state, path_length) ==
    LET Ret(pw2) ==
            [path_weights |-> pw2,
             value |-> pw2.vects[path_length + 1][state],
             raised |-> ~WeightsAgree(pw2.lists[state][path_length + 1],
                                      pw2.vects[path_length + 1][state])]
    IN Ret(PathWeightsExtendTo(pw, d, path_length))

(***************************************************************************)
(* Distributions: a record                                                 *)
(*   type     the class, or "None" for the value None                      *)
(*   list     the list the object is: cumulative probabilities             *)
(*            (DiscreteRandomVariable) or character indices                *)
(*            (LeastFrequentRoundRobin); indices count from 0              *)
(*   chooser  the position of itertools.cycle in the list                  *)
(***************************************************************************)
NoneDist == [type |-> "None", list |-> <<>>, chooser |-> 0]

\* A faulty DiscreteRandomVariable that gives every character of positive
\* weight the same probability.
DiscreteRandomVariableEven(weights) ==
    LET total == RatSum(weights, 1, Len(weights))
        probs == [i \in 1..Len(weights) |->
                     IF weights[i] = Zero THEN Zero ELSE One]
        n == RatSum(probs, 1, Len(weights))
    IN IF total = Zero THEN NoneDist
       ELSE [type |-> "DiscreteRandomVariable",
             list |-> [i \in 1..Len(weights) |-> RatDiv(RatSum(probs, 1, i), n)],
             chooser |-> 0]

\* DiscreteRandomVariable.__init__; None stands for InvalidDistributionError,
\* which the only caller turns into None.
DiscreteRandomVariable(weights) ==
    LET total == RatSum(weights, 1, Len(weights))
        probs == [i \in 1..Len(weights) |-> RatDiv(weights[i], total)]
    IN IF total = Zero THEN NoneDist
       ELSE [type |-> "DiscreteRandomVariable",
             list |-> [i \in 1..Len(weights) |-> RatSum(probs, 1, i)],
             chooser |-> 0]

\* sorted(indices, key=counts.__getitem__): a stable insertion sort
RECURSIVE SortByCount(_, _)
SortByCount(indices, counts) ==
    IF indices = <<>> THEN <<>>
    ELSE LET rest == SortByCount(Tail(indices), counts)
             x == Head(indices)
             before == SelectSeq(rest, LAMBDA y : RatLt(counts[y + 1], counts[x + 1]))
             after == SelectSeq(rest, LAMBDA y : ~RatLt(counts[y + 1], counts[x + 1]))
         IN before \o <<x>> \o after

\* A faulty LeastFrequentRoundRobin that keeps the indices of zero weight.
LeastFrequentRoundRobinAll(counts) ==
    [type |-> "LeastFrequentRoundRobin",
     list |-> SortByCount([i \in 1..Len(counts) |-> i - 1], counts),
     chooser |-> 0]

\* LeastFrequentRoundRobin.__init__
LeastFrequentRoundRobin(counts) ==
    [type |-> "LeastFrequentRoundRobin",
     list |-> SortByCount(
                  SelectSeq([i \in 1..Len(counts) |-> i - 1],
                            LAMBDA i : RatLt(Zero, counts[i + 1])),
                  counts),
     chooser |-> 0]

\* self.distribution_type(weights)
DistributionType(type, weights) ==
    IF type = "DiscreteRandomVariable" THEN DiscreteRandomVariable(weights)
    ELSE LeastFrequentRoundRobin(weights)

(***************************************************************************)
(* dist.draw(): the set of possible outcomes, each with the index drawn,   *)
(* the probability of drawing it, the distribution afterwards and whether  *)
(* an exception was raised.                                                *)
(* DiscreteRandomVariable.draw is bisect_left(self, r) for a random r in   *)
(* [0, 1): the first index whose right endpoint is >= r. Index i > 0 is    *)
(* drawn for r in (list[i-1], list[i]], index 0 for r in [0, list[0]].     *)
(* LeastFrequentRoundRobin.draw is next(self.chooser), which raises        *)
(* StopIteration when the list is empty.                                   *)
(***************************************************************************)
Draw(dist) ==
    IF dist.type = "DiscreteRandomVariable"
    THEN {[index |-> i - 1,
           probability |-> IF i = 1 THEN dist.list[1]
                           ELSE RatAbsDiff(dist.list[i], dist.list[i - 1]),
           dist |-> dist,
           raised |-> FALSE] :
            i \in {j \in 1..Len(dist.list) :
                      j = 1 \/ RatLt(dist.list[j - 1], dist.list[j])}}
    ELSE IF dist.list = <<>>
    THEN {[index |-> 0, probability |-> One, dist |-> dist, raised |-> TRUE]}
    ELSE {[index |-> dist.list[dist.chooser + 1],
           probability |-> One,
           dist |-> [dist EXCEPT !.chooser = (dist.chooser + 1) % Len(dist.list)],
           raised |-> FALSE]}

(***************************************************************************)
(* BaseGenerator: a record                                                 *)
(*   distribution_type               the class attribute                   *)
(*   path_weights                    the PathWeights object                *)
(*   node_length_to_character_dist   the cache of distributions            *)
(***************************************************************************)
\* BaseGenerator.__init__ for a DFA that is total and already has integer
\* states
BaseGenerator(type, d) ==
    [distribution_type |-> type,
     path_weights |-> PathWeightsNew(d),
     node_length_to_character_dist |-> <<>>]

\* [self.path_weights[self.dfa.delta[state][char], length - 1]
\*  for char in self.alphabet], from the k-th character on
RECURSIVE CharWeights(_, _, _, _, _)
CharWeights(pw, d, state, length, k) ==
    IF k > Len(d.alphabet)
    THEN [path_weights |-> pw, weights |-> <<>>, raised |-> FALSE]
    ELSE LET Cons(got, rest) == [rest EXCEPT !.weights = <<got.value>> \o rest.weights]
             Next(got) ==
                IF got.raised
                THEN [path_weights |-> got.path_weights, weights |-> <<>>,
                      raised |-> TRUE]
                ELSE Cons(got, CharWeights(got.path_weights, d, state, length, k + 1))
         IN Next(PathWeightsGet(pw, d, d.delta[state][d.alphabet[k]], length - 1))

\* BaseGenerator.get_dist_for_node_and_length: the generator afterwards, the
\* distribution returned, and whether an exception was raised.
GetDistForNodeAndLength(g, d, state, length) ==
    IF <<state, length>> \in DOMAIN g.node_length_to_character_dist
    THEN [gen |-> g,
          dist |-> g.node_length_to_character_dist[<<state, length>>],
          raised |-> FALSE]
    ELSE LET Store(g2, dist) ==
                [gen |-> [g2 EXCEPT !.node_length_to_character_dist =
                             (<<state, length>> :> dist) @@ @],
                 dist |-> dist,
                 raised |-> FALSE]
             Make(cw) ==
                IF cw.raised
                THEN [gen |-> [g EXCEPT !.path_weights = cw.path_weights],
                      dist |-> NoneDist, raised |-> TRUE]
                ELSE Store([g EXCEPT !.path_weights = cw.path_weights],
                           DistributionType(g.distribution_type, cw.weights))
         IN Make(CharWeights(g.path_weights, d, state, length, 1))

(***************************************************************************)
(* BaseGenerator.generate_string(length). The locals in `call`:            *)
(*   length, state, chars   as in the code                                 *)
(*   probability            of the draws made so far                       *)
(*   none                   the value returned is None                     *)
(***************************************************************************)
\* Lines 188-193: up to the loop.
GenerateStringCall ==
    /\ pc = "idle"
    /\ \E length \in 0..MaxGenLen :
          LET state == dfa.start
              locals == [op |-> "generate_string", length |-> length,
                         state |-> state, chars |-> <<>>,
                         probability |-> One, none |-> FALSE]
          IN IF length = 0 /\ ~dfa.node[state]
             THEN /\ call' = [locals EXCEPT !.none = TRUE]
                  /\ pc' = "returned"
                  /\ gen' = gen
             ELSE LET got == PathWeightsGet(gen.path_weights, dfa, state, length)
                  IN /\ gen' = [gen EXCEPT !.path_weights = got.path_weights]
                     /\ call' = [locals EXCEPT !.none = (~got.raised /\ got.value = Zero)]
                     /\ pc' = IF got.raised THEN "raised"
                              ELSE IF got.value = Zero THEN "returned"
                              ELSE "generate_string"
    /\ UNCHANGED <<built, ops, regex, string, dfa, nodes, node>>

\* Lines 194-200: one iteration of `for i in range(length)`.
GenerateStringLoop ==
    /\ pc = "generate_string"
    /\ Len(call.chars) < call.length
    /\ LET got == GetDistForNodeAndLength(gen, dfa, call.state,
                                          call.length - Len(call.chars))
       IN IF got.raised
          THEN gen' = got.gen /\ call' = call /\ pc' = "raised"
          ELSE IF got.dist.type = "None"
          THEN gen' = got.gen /\ call' = [call EXCEPT !.none = TRUE] /\ pc' = "returned"
          ELSE \E drawn \in Draw(got.dist) :
                  LET char == dfa.alphabet[drawn.index + 1]
                  IN /\ gen' = [got.gen EXCEPT
                                  !.node_length_to_character_dist
                                      [<<call.state, call.length - Len(call.chars)>>]
                                          = drawn.dist]
                     /\ IF drawn.raised
                        THEN call' = call /\ pc' = "raised"
                        ELSE /\ call' = [call EXCEPT
                                           !.chars = Append(@, char),
                                           !.state = dfa.delta[call.state][char],
                                           !.probability = RatMul(@, drawn.probability)]
                             /\ pc' = pc
    /\ UNCHANGED <<built, ops, regex, string, dfa, nodes, node>>

\* Line 201: return the joined characters.
GenerateStringReturn ==
    /\ pc = "generate_string"
    /\ Len(call.chars) = call.length
    /\ pc' = "returned"
    /\ UNCHANGED <<built, ops, regex, string, dfa, nodes, node, gen, call>>

(***************************************************************************)
(* DFA._acceptable_subgraph and the length of DFA.longest_string, on the   *)
(* DFA's graph.                                                            *)
(***************************************************************************)
\* The successors of the states S along the graph's edges.
Successors(d, S) == {e[2] : e \in {x \in BagToSet(d.edges) : x[1] \in S}}

\* nx.descendants(graph, source) | {source}, for a set of sources
RECURSIVE ReachableFrom(_, _)
ReachableFrom(d, S) ==
    LET next == S \cup Successors(d, S)
    IN IF next = S THEN S ELSE ReachableFrom(d, next)

\* A faulty acceptable subgraph that keeps every reachable state.
AcceptableStatesReachable(d) == ReachableFrom(d, {d.start})

\* A faulty acyclicity test that finds a cycle in every graph with a node.
HasCycleAlways(d, S) == S # {}

\* The nodes of DFA._acceptable_subgraph: the states reachable from the start
\* from which an accepting state is reachable.
AcceptableStates(d) ==
    {state \in ReachableFrom(d, {d.start}) :
        \E t \in ReachableFrom(d, {state}) : d.node[t]}

\* nx.topological_sort raises NetworkXUnfeasible: the subgraph on S has a cycle
HasCycle(d, S) ==
    \E state \in S :
        state \in ReachableFrom([d EXCEPT !.edges =
                       SetToBag({e \in BagToSet(d.edges) : e[1] \in S /\ e[2] \in S})],
                                Successors(d, {state}) \cap S)

\* A faulty dag_longest_path that finds no path longer than a single node.
DagDistZero(d, S, v) == 0

\* dag_longest_path: dist[v], the number of edges of the longest path of the
\* acyclic subgraph on S that ends in v
RECURSIVE DagDist(_, _, _)
DagDist(d, S, v) ==
    LET preds == {e[1] : e \in {x \in BagToSet(d.edges) : x[2] = v /\ x[1] \in S}}
        dists == {DagDist(d, S, u) + 1 : u \in preds}
    IN IF preds = {} THEN 0 ELSE CHOOSE m \in dists : \A k \in dists : k <= m

\* DFA.longest_string: the exception it raises ("None" if it returns) and the
\* length of the string it returns
LongestString(d) ==
    LET acceptable == AcceptableStates(d)
        lengths == {DagDist(d, acceptable, v) : v \in acceptable}
    IN IF acceptable = {} THEN [raised |-> "EmptyLanguageError", length |-> 0]
       ELSE IF HasCycle(d, acceptable)
       THEN [raised |-> "InfiniteLanguageError", length |-> 0]
       ELSE [raised |-> "None",
             length |-> CHOOSE m \in lengths : \A k \in lengths : k <= m]

(***************************************************************************)
(* BaseGenerator.valid_lengths_iter(), consumed by its caller one value at *)
(* a time. The locals in `call`:                                           *)
(*   length     the next value of `iterator`                               *)
(*   stop       the end of range(len(longest_string) + 1), 0 for iter(())  *)
(*   infinite   `iterator` is count()                                      *)
(*   yielded    the values yielded so far                                  *)
(***************************************************************************)
\* Lines 204-211: the iterator.
LengthsIterator(op, d) ==
    LET longest_string == LongestString(d)
    IN [op |-> op,
        length |-> 0,
        stop |-> IF longest_string.raised = "None" THEN longest_string.length + 1 ELSE 0,
        infinite |-> longest_string.raised = "InfiniteLanguageError",
        yielded |-> <<>>]

ValidLengthsIterStart ==
    /\ pc = "idle"
    /\ call' = LengthsIterator("valid_lengths_iter", dfa)
    /\ pc' = "valid_lengths_iter"
    /\ UNCHANGED <<built, ops, regex, string, dfa, nodes, node, gen>>

\* Lines 213-215: one iteration of `for length in iterator`; count() is
\* followed up to MaxGenLen.
ValidLengthsIterNext ==
    /\ pc = "valid_lengths_iter"
    /\ IF call.infinite THEN call.length <= MaxGenLen ELSE call.length < call.stop
    /\ LET got == PathWeightsGet(gen.path_weights, dfa, dfa.start, call.length)
       IN /\ gen' = [gen EXCEPT !.path_weights = got.path_weights]
          /\ pc' = IF got.raised THEN "raised" ELSE pc
          /\ call' = IF got.raised THEN call
                     ELSE [call EXCEPT
                             !.length = @ + 1,
                             !.yielded = IF RatLt(Zero, got.value)
                                         THEN Append(@, call.length) ELSE @]
    /\ UNCHANGED <<built, ops, regex, string, dfa, nodes, node>>

\* `iterator` is exhausted: the generator ends.
ValidLengthsIterStop ==
    /\ pc = "valid_lengths_iter"
    /\ ~call.infinite
    /\ call.length >= call.stop
    /\ pc' = "exhausted"
    /\ UNCHANGED <<built, ops, regex, string, dfa, nodes, node, gen, call>>

(***************************************************************************)
(* DeterministicRegularLanguageGenerator.matching_strings_iter().          *)
(***************************************************************************)
\* The generator strings(state, stack, remaining_length), from the k-th index
\* of its loop over the distribution on: the generator object afterwards, the
\* strings it yields in order, and whether an exception was raised. (The
\* distribution is looked up again for k > 1; it is in the cache by then.)
RECURSIVE Strings(_, _, _, _, _, _)
Strings(g, d, state, stack, remaining_length, k) ==
    IF remaining_length = 0
    THEN [gen |-> g,
          yielded |-> IF d.node[state] THEN <<<<>>>> ELSE <<>>,
          raised |-> FALSE]
    ELSE LET Join(inner, rest) == [rest EXCEPT !.yielded = inner.yielded \o rest.yielded]
             Rest(inner) ==
                IF inner.raised THEN inner
                ELSE Join(inner, Strings(inner.gen, d, state, stack,
                                         remaining_length, k + 1))
             Body(g2, char) ==
                Rest(IF remaining_length = 1
                     THEN [gen |-> g2, yielded |-> <<Append(stack, char)>>,
                           raised |-> FALSE]
                     ELSE Strings(g2, d, d.delta[state][char], Append(stack, char),
                                  remaining_length - 1, 1))
             Loop(got) ==
                IF got.raised THEN [gen |-> got.gen, yielded |-> <<>>, raised |-> TRUE]
                ELSE IF k > Len(got.dist.list)
                THEN [gen |-> got.gen, yielded |-> <<>>, raised |-> FALSE]
                ELSE Body(got.gen, d.alphabet[got.dist.list[k] + 1])
         IN Loop(GetDistForNodeAndLength(g, d, state, remaining_length))

MatchingStringsIterStart ==
    /\ pc = "idle"
    /\ gen.distribution_type = "LeastFrequentRoundRobin"
    /\ call' = LengthsIterator("matching_strings_iter", dfa)
    /\ pc' = "matching_strings_iter"
    /\ UNCHANGED <<built, ops, regex, string, dfa, nodes, node, gen>>

\* Lines 262-264: one step of valid_lengths_iter and, if it yields a length,
\* all of strings(self.dfa.start, [], length).
MatchingStringsIterNext ==
    /\ pc = "matching_strings_iter"
    /\ IF call.infinite THEN call.length <= MaxGenLen ELSE call.length < call.stop
    /\ LET Yield(strs) ==
              /\ gen' = strs.gen
              /\ call' = [call EXCEPT !.length = @ + 1,
                                      !.yielded = @ \o strs.yielded]
              /\ pc' = IF strs.raised THEN "raised" ELSE pc
           Length(got, g2) ==
              IF got.raised
              THEN gen' = g2 /\ call' = call /\ pc' = "raised"
              ELSE IF ~RatLt(Zero, got.value)
              THEN gen' = g2 /\ call' = [call EXCEPT !.length = @ + 1] /\ pc' = pc
              ELSE Yield(Strings(g2, dfa, dfa.start, <<>>, call.length, 1))
           Weight(got) == Length(got, [gen EXCEPT !.path_weights = got.path_weights])
       IN Weight(PathWeightsGet(gen.path_weights, dfa, dfa.start, call.length))
    /\ UNCHANGED <<built, ops, regex, string, dfa, nodes, node>>

MatchingStringsIterStop ==
    /\ pc = "matching_strings_iter"
    /\ ~call.infinite
    /\ call.length >= call.stop
    /\ pc' = "exhausted"
    /\ UNCHANGED <<built, ops, regex, string, dfa, nodes, node, gen, call>>

(***************************************************************************)
(* The generators: a generator of either class is constructed for a total  *)
(* integer DFA, and then one of its operations is called.                  *)
(***************************************************************************)
InitGen ==
    /\ built = EMPTY
    /\ ops = 0
    /\ regex = EMPTY
    /\ string = <<>>
    /\ nodes = {}
    /\ node = EMPTY
    /\ dfa \in IntegerDFAs
    /\ \E type \in {"DiscreteRandomVariable", "LeastFrequentRoundRobin"} :
          gen = BaseGenerator(type, dfa)
    /\ call = NoCall
    /\ pc = "idle"

NextGen ==
    \/ GenerateStringCall
    \/ GenerateStringLoop
    \/ GenerateStringReturn
    \/ ValidLengthsIterStart
    \/ ValidLengthsIterNext
    \/ ValidLengthsIterStop
    \/ MatchingStringsIterStart
    \/ MatchingStringsIterNext
    \/ MatchingStringsIterStop

SpecGen == InitGen /\ [][NextGen]_vars

(***************************************************************************)
(* Reference definitions for the generators' claims, by enumeration of the *)
(* strings over the alphabet and independent of the path weights.          *)
(***************************************************************************)
\* The DFA d, started in `state`, accepts w.
RECURSIVE AcceptsFrom(_, _, _)
AcceptsFrom(d, state, w) ==
    IF w = <<>> THEN d.node[state]
    ELSE AcceptsFrom(d, d.delta[state][Head(w)], Tail(w))

\* The strings of length n accepted from `state`.
AcceptedFrom(d, state, n) ==
    {w \in [1..n -> Range(d.alphabet)] : AcceptsFrom(d, state, w)}

\* The accepted strings of length n.
Accepted(d, n) == AcceptedFrom(d, d.start, n)

\* The language is infinite iff it has a string at least as long as the
\* number of states |S| and shorter than 2|S| (pumping).
LanguageInfinite(d) ==
    LET n == Cardinality(DOMAIN d.node)
    IN \E k \in n..(2 * n - 1) : Accepted(d, k) # {}

LanguageEmpty(d) ==
    \A k \in 0..(Cardinality(DOMAIN d.node) - 1) : Accepted(d, k) = {}

\* The lengths of the accepted strings shorter than `bound`.
AcceptedLengths(d, bound) == {k \in 0..(bound - 1) : Accepted(d, k) # {}}

(***************************************************************************)
(* C6: for every total DFA and every length L >= 0, generate_string(L)     *)
(* returns either None or a string of exactly L characters that the DFA    *)
(* accepts, and it returns None iff the DFA accepts no string of length L; *)
(* in particular it returns and does not raise.                            *)
(***************************************************************************)
C6_GenerateStringContract ==
    call.op = "generate_string" =>
        /\ pc # "raised"
        /\ pc = "returned" =>
              IF call.none THEN Accepted(dfa, call.length) = {}
              ELSE call.chars \in Accepted(dfa, call.length)

(***************************************************************************)
(* C7: RandomRegularLanguageGenerator.generate_string(L) is uniform: when  *)
(* N_L >= 1 strings of length L are accepted, each is returned with        *)
(* probability 1/N_L and nothing else is returned with positive            *)
(* probability; after a prefix has been drawn, its probability is the      *)
(* number of accepted completions from the state reached over N_L; and     *)
(* every path weight computed, path_weights[u, n], is the number of        *)
(* accepted strings of length n from u over the total for all states.      *)
(***************************************************************************)
C7_UniformGeneration ==
    (/\ gen.distribution_type = "DiscreteRandomVariable"
     /\ call.op = "generate_string"
     /\ Accepted(dfa, call.length) # {}) =>
        LET N_L == Cardinality(Accepted(dfa, call.length))
            remaining == call.length - Len(call.chars)
            pw == gen.path_weights
            total(n) == RatSum([u \in DOMAIN dfa.node |->
                                   <<Cardinality(AcceptedFrom(dfa, u, n)), 1>>],
                               0, Cardinality(DOMAIN dfa.node) - 1)
        IN /\ pc # "raised"
           /\ (pc = "returned" /\ call.probability # Zero) =>
                 /\ ~call.none
                 /\ call.chars \in Accepted(dfa, call.length)
                 /\ call.probability = <<1, N_L>>
           /\ (pc = "generate_string" /\ call.probability # Zero) =>
                 call.probability =
                     Rat(Cardinality(AcceptedFrom(dfa, call.state, remaining)), N_L)
           /\ \A n \in 0..pw.longest_path_length : \A u \in DOMAIN dfa.node :
                 /\ pw.vects[n + 1][u] = pw.lists[u][n + 1]
                 /\ pw.vects[n + 1][u] =
                       IF total(n) = Zero THEN Zero
                       ELSE RatDiv(<<Cardinality(AcceptedFrom(dfa, u, n)), 1>>, total(n))

\* the random generator has returned one of three accepted strings of the
\* longest length, with probability 1/3
C7_Witness ==
    /\ pc = "returned"
    /\ gen.distribution_type = "DiscreteRandomVariable"
    /\ call.op = "generate_string"
    /\ call.length = MaxGenLen
    /\ ~call.none
    /\ Cardinality(Accepted(dfa, call.length)) = 3
    /\ call.probability = <<1, 3>>

(***************************************************************************)
(* C8: matching_strings_iter yields exactly the accepted strings, each     *)
(* once and nothing else: after the lengths below `length` have been       *)
(* handled, the strings yielded are without repetition and are exactly the *)
(* accepted strings shorter than `length`; the iteration ends only for a   *)
(* finite language and then no accepted string is left; for an infinite    *)
(* language it goes on through all lengths.                                *)
(***************************************************************************)
C8_MatchingStringsExact ==
    call.op = "matching_strings_iter" =>
        /\ pc # "raised"
        /\ \A i, j \in DOMAIN call.yielded : i # j => call.yielded[i] # call.yielded[j]
        /\ Range(call.yielded) = UNION {Accepted(dfa, k) : k \in 0..(call.length - 1)}
        /\ pc = "exhausted" =>
              /\ ~LanguageInfinite(dfa)
              /\ \A k \in call.length..(2 * Cardinality(DOMAIN dfa.node)) :
                    Accepted(dfa, k) = {}
        /\ LanguageInfinite(dfa) => call.infinite /\ pc = "matching_strings_iter"

\* the iteration over a finite language has ended after yielding several
\* strings of different lengths
C8_Witness ==
    /\ call.op = "matching_strings_iter"
    /\ pc = "exhausted"
    /\ Len(call.yielded) >= 3
    /\ \E i, j \in DOMAIN call.yielded : Len(call.yielded[i]) # Len(call.yielded[j])

(***************************************************************************)
(* C9: valid_lengths_iter yields a length L iff the DFA accepts a string   *)
(* of length L, in strictly increasing order; it yields nothing for an     *)
(* empty language, stops after len(longest_string) for a finite language   *)
(* and ranges over all non-negative integers for an infinite language.     *)
(***************************************************************************)
C9_ValidLengths ==
    call.op = "valid_lengths_iter" =>
        /\ pc # "raised"
        /\ \A i, j \in DOMAIN call.yielded : i < j => call.yielded[i] < call.yielded[j]
        /\ Range(call.yielded) = AcceptedLengths(dfa, call.length)
        /\ call.infinite = LanguageInfinite(dfa)
        /\ LanguageEmpty(dfa) => call.stop = 0 /\ call.yielded = <<>>
        /\ (~LanguageInfinite(dfa) /\ ~LanguageEmpty(dfa)) =>
              /\ call.stop - 1 \in AcceptedLengths(dfa, 2 * Cardinality(DOMAIN dfa.node))
              /\ \A k \in AcceptedLengths(dfa, 2 * Cardinality(DOMAIN dfa.node)) :
                    k <= call.stop - 1
        /\ pc = "exhausted" => ~call.infinite /\ call.length = call.stop

\* the iterator over a finite language has ended after skipping one length
\* and yielding another
C9_Witness ==
    /\ call.op = "valid_lengths_iter"
    /\ pc = "exhausted"
    /\ Len(call.yielded) >= 1
    /\ Len(call.yielded) < call.stop

(***************************************************************************)
(* get_equivalent_states (dfa.py).  The locals of the call are kept in     *)
(* `call`:                                                                 *)
(*   equivalent       the set of ordered pairs not yet disproved           *)
(*   to_disprove      the pairs left in the current pass                   *)
(*   found_disproof   whether the current pass has removed a pair          *)
(*   result           the set returned                                     *)
(* set.pop() takes an arbitrary element: every choice is followed.         *)
(***************************************************************************)
MaxEquivStates == 4

\* The DFAs handed to get_equivalent_states: those of the generators and
\* the DFAs of MaxEquivStates states over a one-character alphabet, in which
\* a pair of states may need a string of two characters to be told apart.
EquivDFAs ==
    IntegerDFAs \cup
    {IntegerDFAOver(<<1>>, MaxEquivStates, accepting, delta) :
         accepting \in SUBSET (0..(MaxEquivStates - 1)),
         delta \in [0..(MaxEquivStates - 1) -> [{1} -> 0..(MaxEquivStates - 1)]]}

\* A faulty initial relation that holds every pair of states.
InitialEquivalentAll(d) == (DOMAIN d.node) \X (DOMAIN d.node)

\* Lines 323-338: the pairs that the empty string does not tell apart.
InitialEquivalent(d) ==
    {pair \in (DOMAIN d.node) \X (DOMAIN d.node) :
         d.node[pair[1]] = d.node[pair[2]]}

\* Lines 323-346, up to the first test of `while found_disproof`.
GetEquivalentStatesCall ==
    /\ pc = "idle"
    /\ call' = [op |-> "get_equivalent_states",
                equivalent |-> InitialEquivalent(dfa),
                to_disprove |-> {},
                found_disproof |-> TRUE,
                result |-> {}]
    /\ pc' = "get_equivalent_states"
    /\ UNCHANGED <<built, ops, regex, string, dfa, nodes, node, gen>>

\* Lines 347-349: `while found_disproof` holds and a new pass begins.
GetEquivalentStatesPass ==
    /\ pc = "get_equivalent_states"
    /\ call.to_disprove = {}
    /\ call.found_disproof
    /\ call' = [call EXCEPT !.found_disproof = FALSE,
                            !.to_disprove = call.equivalent]
    /\ UNCHANGED <<built, ops, regex, string, dfa, nodes, node, gen, pc>>

\* Lines 350-357: one iteration of `while to_disprove`.  `equivalent` does
\* not change before the break, so the pair is removed iff some character
\* leads to a pair outside `equivalent`.
GetEquivalentStatesPop ==
    /\ pc = "get_equivalent_states"
    /\ call.to_disprove # {}
    /\ \E pair \in call.to_disprove :
          LET p == pair[1]
              q == pair[2]
              disproved ==
                  \E i \in 1..Len(dfa.alphabet) :
                      <<dfa.delta[p][dfa.alphabet[i]],
                        dfa.delta[q][dfa.alphabet[i]]>> \notin call.equivalent
          IN call' = [call EXCEPT
                        !.to_disprove = @ \ {pair, <<q, p>>},
                        !.equivalent = IF disproved THEN @ \ {pair} ELSE @,
                        !.found_disproof = @ \/ disproved]
    /\ UNCHANGED <<built, ops, regex, string, dfa, nodes, node, gen, pc>>

\* Line 359: a pass has found no disproof.
GetEquivalentStatesReturn ==
    /\ pc = "get_equivalent_states"
    /\ call.to_disprove = {}
    /\ ~call.found_disproof
    /\ call' = [call EXCEPT
                  !.result = call.equivalent \cup
                             {<<pair[2], pair[1]>> : pair \in call.equivalent}]
    /\ pc' = "returned"
    /\ UNCHANGED <<built, ops, regex, string, dfa, nodes, node, gen>>

InitEquiv ==
    /\ built = EMPTY
    /\ ops = 0
    /\ regex = EMPTY
    /\ string = <<>>
    /\ nodes = {}
    /\ node = EMPTY
    /\ dfa \in EquivDFAs
    /\ gen = NoGen
    /\ call = NoCall
    /\ pc = "idle"

NextEquiv ==
    \/ GetEquivalentStatesCall
    \/ GetEquivalentStatesPass
    \/ GetEquivalentStatesPop
    \/ GetEquivalentStatesReturn

SpecEquiv == InitEquiv /\ [][NextEquiv]_vars

\* The Myhill-Nerode relation by enumeration: two states of a DFA of n
\* states that no string shorter than n tells apart are told apart by none.
MyhillNerode(d) ==
    LET n == Cardinality(DOMAIN d.node)
    IN {pair \in (DOMAIN d.node) \X (DOMAIN d.node) :
           \A k \in 0..(n - 1) : \A w \in [1..k -> Range(d.alphabet)] :
               AcceptsFrom(d, pair[1], w) = AcceptsFrom(d, pair[2], w)}

(***************************************************************************)
(* C10: get_equivalent_states returns exactly the ordered pairs (p, q) of  *)
(* states from which the same strings are accepted, and the relation       *)
(* returned is reflexive, symmetric and transitive; while it runs, no such *)
(* pair is ever removed from `equivalent`.                                 *)
(***************************************************************************)
C10_EquivalentStatesMyhillNerode ==
    call.op = "get_equivalent_states" =>
        /\ MyhillNerode(dfa) \subseteq call.equivalent
        /\ pc = "returned" =>
              /\ call.result = MyhillNerode(dfa)
              /\ \A p \in DOMAIN dfa.node : <<p, p>> \in call.result
              /\ \A pair \in call.result : <<pair[2], pair[1]>> \in call.result
              /\ \A x \in call.result : \A y \in call.result :
                    x[2] = y[1] => <<x[1], y[2]>> \in call.result

\* the relation returned leaves out a pair of states that only a string of
\* two characters tells apart
C10_Witness ==
    /\ call.op = "get_equivalent_states"
    /\ pc = "returned"
    /\ \E p, q \in DOMAIN dfa.node :
          /\ <<p, q>> \notin call.result
          /\ \A k \in 0..1 : \A w \in [1..k -> Range(dfa.alphabet)] :
                AcceptsFrom(dfa, p, w) = AcceptsFrom(dfa, q, w)

(***************************************************************************)
(* minimize_dfa (dfa.py).  The states of the new DFA are frozensets of     *)
(* states of the old one.  set.pop() and next(iter(new_state)) take an     *)
(* arbitrary element: every choice is followed.                            *)
(***************************************************************************)
\* A faulty class construction that never merges states.
NewStateAlone(state, equivalent_states) == {state}

\* Lines 371-375: new_state, the popped state with every q paired to it.
NewState(state, equivalent_states) ==
    {state} \cup {pair[2] : pair \in {e \in equivalent_states : e[1] = state}}

\* Lines 367-376: the lists equivalency_classes that the loop can build.
RECURSIVE EquivalencyClasses(_, _)
EquivalencyClasses(old_states, equivalent_states) ==
    IF old_states = {} THEN {<<>>}
    ELSE UNION {
           {<<NewState(state, equivalent_states)>> \o rest :
               rest \in EquivalencyClasses(
                            (old_states \ {state}) \ NewState(state, equivalent_states),
                            equivalent_states)} :
           state \in old_states}

\* Lines 377-380: a later class of the list overrides an earlier one.
OldStateToNewState(equivalency_classes) ==
    [state \in UNION Range(equivalency_classes) |->
        equivalency_classes[
            CHOOSE i \in DOMAIN equivalency_classes :
                /\ state \in equivalency_classes[i]
                /\ \A j \in DOMAIN equivalency_classes :
                      state \in equivalency_classes[j] => j <= i]]

\* Lines 387-389: add_state for the classes from the i-th on; is_accepting
\* reads the element of the class that `first` gives.
RECURSIVE MinimizeAddStates(_, _, _, _, _)
MinimizeAddStates(new_dfa, d, equivalency_classes, first, i) ==
    IF i > Len(equivalency_classes) THEN new_dfa
    ELSE MinimizeAddStates(
             IF equivalency_classes[i] # new_dfa.start
             THEN AddState(new_dfa, equivalency_classes[i],
                           d.node[first[equivalency_classes[i]]])
             ELSE new_dfa,
             d, equivalency_classes, first, i + 1)

\* Lines 391-397: add_transition for the k-th transition of the old DFA on,
\* in the order of its states and characters.
RECURSIVE MinimizeAddTransitions(_, _, _, _)
MinimizeAddTransitions(new, d, old_state_to_new_state, k) ==
    LET states == SetToSortedSeq(DOMAIN d.node)
        from_state == states[(k \div Len(d.alphabet)) + 1]
        char == d.alphabet[(k % Len(d.alphabet)) + 1]
    IN IF new.raised \/ k >= Len(states) * Len(d.alphabet) THEN new
       ELSE IF AddTransitionRaises(new.dfa, old_state_to_new_state[from_state],
                                   old_state_to_new_state[d.delta[from_state][char]],
                                   char)
       THEN [new EXCEPT !.raised = TRUE]
       ELSE MinimizeAddTransitions(
                [new EXCEPT !.dfa = AddTransition(
                     new.dfa, old_state_to_new_state[from_state],
                     old_state_to_new_state[d.delta[from_state][char]], char)],
                d, old_state_to_new_state, k + 1)

\* Lines 367-399 for one list of classes and one choice of first elements.
MinimizeDfaFrom(d, equivalency_classes, first) ==
    MinimizeAddTransitions(
        [dfa |-> MinimizeAddStates(
                     DFANew(OldStateToNewState(equivalency_classes)[d.start],
                            d.node[first[OldStateToNewState(equivalency_classes)[d.start]]],
                            d.alphabet),
                     d, equivalency_classes, first, 1),
         raised |-> FALSE],
        d, OldStateToNewState(equivalency_classes), 0)

\* minimize_dfa(d), given what get_equivalent_states(d) returned: the DFAs
\* the call can return or the exception it can raise.
MinimizeDfa(d, equivalent_states) ==
    UNION {{MinimizeDfaFrom(d, equivalency_classes, first) :
               first \in {f \in [Range(equivalency_classes) -> DOMAIN d.node] :
                             \A c \in Range(equivalency_classes) : f[c] \in c}} :
           equivalency_classes \in EquivalencyClasses(DOMAIN d.node, equivalent_states)}

\* minimize_dfa after its call of get_equivalent_states (line 366) returned.
MinimizeDfaCall ==
    /\ pc = "returned"
    /\ call.op = "get_equivalent_states"
    /\ \E new \in MinimizeDfa(dfa, call.result) :
          /\ call' = [op |-> "minimize_dfa", new_dfa |-> new.dfa]
          /\ pc' = IF new.raised THEN "raised" ELSE "minimized"
    /\ UNCHANGED <<built, ops, regex, string, dfa, nodes, node, gen>>

NextMinimize ==
    \/ GetEquivalentStatesCall
    \/ GetEquivalentStatesPass
    \/ GetEquivalentStatesPop
    \/ GetEquivalentStatesReturn
    \/ MinimizeDfaCall

SpecMinimize == InitEquiv /\ [][NextMinimize]_vars

\* d is total: every state has a transition on exactly the characters of the
\* alphabet, to a state of d.
IsTotal(d) ==
    \A state \in DOMAIN d.node :
        /\ DOMAIN Row(d, state) = Range(d.alphabet)
        /\ \A char \in Range(d.alphabet) : HasNode(d, d.delta[state][char])

\* d and e accept the same strings up to length n.
SameLanguageUpTo(d, e, n) ==
    \A k \in 0..n : \A w \in [1..k -> Range(d.alphabet)] :
        AcceptsFrom(d, d.start, w) = AcceptsFrom(e, e.start, w)

(***************************************************************************)
(* C11: minimize_dfa(d) returns a total DFA over the same alphabet that    *)
(* accepts the same strings as d (two DFAs of n and m states that agree on *)
(* the strings shorter than n + m agree on all) and has at most as many    *)
(* states; its states are the classes of d's equivalent states and its     *)
(* start state is the class of d's start.                                  *)
(***************************************************************************)
C11_MinimizePreservesLanguage ==
    call.op = "minimize_dfa" =>
        /\ pc = "minimized"
        /\ call.new_dfa.alphabet = dfa.alphabet
        /\ IsTotal(call.new_dfa)
        /\ Cardinality(DOMAIN call.new_dfa.node) <= Cardinality(DOMAIN dfa.node)
        /\ SameLanguageUpTo(dfa, call.new_dfa,
                            Cardinality(DOMAIN dfa.node)
                              + Cardinality(DOMAIN call.new_dfa.node))
        /\ DOMAIN call.new_dfa.node =
              {{q \in DOMAIN dfa.node : <<p, q>> \in MyhillNerode(dfa)} :
                  p \in DOMAIN dfa.node}
        /\ dfa.start \in call.new_dfa.start

\* a DFA of at least three states has been minimized to two or more states,
\* one of them a class of several states
C11_Witness ==
    /\ call.op = "minimize_dfa"
    /\ pc = "minimized"
    /\ Cardinality(DOMAIN dfa.node) >= 3
    /\ Cardinality(DOMAIN call.new_dfa.node) >= 2
    /\ Cardinality(DOMAIN call.new_dfa.node) < Cardinality(DOMAIN dfa.node)

(***************************************************************************)
(* get_equivalent_states as a function of the DFA: the sets the call can   *)
(* return over every order of set.pop(), from the locals given.            *)
(***************************************************************************)
RECURSIVE GetEquivalentStatesFrom(_, _, _, _)
GetEquivalentStatesFrom(d, equivalent, to_disprove, found_disproof) ==
    IF to_disprove = {}
    THEN IF found_disproof
         THEN GetEquivalentStatesFrom(d, equivalent, equivalent, FALSE)
         ELSE {equivalent \cup {<<pair[2], pair[1]>> : pair \in equivalent}}
    ELSE UNION {
           GetEquivalentStatesFrom(
               d,
               IF \E i \in 1..Len(d.alphabet) :
                      <<d.delta[pair[1]][d.alphabet[i]],
                        d.delta[pair[2]][d.alphabet[i]]>> \notin equivalent
               THEN equivalent \ {pair} ELSE equivalent,
               to_disprove \ {pair, <<pair[2], pair[1]>>},
               found_disproof \/
                   \E i \in 1..Len(d.alphabet) :
                      <<d.delta[pair[1]][d.alphabet[i]],
                        d.delta[pair[2]][d.alphabet[i]]>> \notin equivalent) :
           pair \in to_disprove}

GetEquivalentStates(d) ==
    GetEquivalentStatesFrom(d, InitialEquivalent(d), InitialEquivalent(d), FALSE)

(***************************************************************************)
(* DFA.construct_isomorphism (dfa.py).  The locals of the call are kept in *)
(* `call`:                                                                 *)
(*   self, other    the two DFAs                                           *)
(*   original       the DFA that `other` was minimized from, if any        *)
(*   isomorphism    the dict built so far                                  *)
(*   to_explore     the list of pairs still to explore                     *)
(*   none           the call has returned None                             *)
(* dict.items() delivers the characters in an order the caller does not    *)
(* control: every order is followed.                                       *)
(***************************************************************************)
MaxIsoStates == 2

\* The DFAs compared: the total DFAs of up to MaxIsoStates states.
IsoDFAs == {d \in IntegerDFAs : Cardinality(DOMAIN d.node) <= MaxIsoStates}

\* Lines 271-281: the body of the for loop from the i-th item on.
RECURSIVE ConstructIsomorphismItems(_, _, _, _, _, _)
ConstructIsomorphismItems(c, self_node, other_node, items, i, other) ==
    IF i > Len(items) THEN c
    ELSE LET self_next_node == Row(c.self, self_node)[items[i]]
             other_next_node == other.delta[other_node][items[i]]
         IN IF self_next_node \notin DOMAIN c.isomorphism
            THEN ConstructIsomorphismItems(
                     [c EXCEPT
                        !.to_explore = Append(@, <<self_next_node, other_next_node>>),
                        !.isomorphism = (self_next_node :> other_next_node) @@ @],
                     self_node, other_node, items, i + 1, other)
            ELSE IF c.isomorphism[self_next_node] # other_next_node
            THEN [c EXCEPT !.none = TRUE]
            ELSE ConstructIsomorphismItems(c, self_node, other_node, items,
                                           i + 1, other)

\* Lines 263-268: the locals after the tests of the alphabets and the sizes.
ConstructIsomorphismLocals(self, other, original) ==
    [op |-> "construct_isomorphism", self |-> self, other |-> other,
     original |-> original,
     isomorphism |-> (self.start :> other.start),
     to_explore |-> <<<<self.start, other.start>>>>,
     none |-> \/ Range(self.alphabet) # Range(other.alphabet)
              \/ Cardinality(DOMAIN self.node) # Cardinality(DOMAIN other.node)]

\* d.construct_isomorphism(other) is called.
ConstructIsomorphismCall ==
    /\ pc = "idle"
    /\ \E other \in IsoDFAs :
          call' = ConstructIsomorphismLocals(dfa, other, NoDFA)
    /\ pc' = IF call'.none THEN "returned" ELSE "construct_isomorphism"
    /\ UNCHANGED <<built, ops, regex, string, dfa, nodes, node, gen>>

\* minimize_dfa(d).construct_isomorphism(minimize_dfa(other)) is called.
MinimizedIsomorphismCall ==
    /\ pc = "idle"
    /\ \E other \in IsoDFAs :
       \E self_states \in GetEquivalentStates(dfa) :
       \E other_states \in GetEquivalentStates(other) :
       \E self_new \in MinimizeDfa(dfa, self_states) :
       \E other_new \in MinimizeDfa(other, other_states) :
          IF self_new.raised \/ other_new.raised
          THEN /\ call' = [op |-> "minimize_dfa", new_dfa |-> NoDFA]
               /\ pc' = "raised"
          ELSE /\ call' = ConstructIsomorphismLocals(self_new.dfa, other_new.dfa, other)
               /\ pc' = IF call'.none THEN "returned" ELSE "construct_isomorphism"
    /\ UNCHANGED <<built, ops, regex, string, dfa, nodes, node, gen>>

\* Lines 269-281: one iteration of `while to_explore`.
ConstructIsomorphismLoop ==
    /\ pc = "construct_isomorphism"
    /\ call.to_explore # <<>>
    /\ LET popped == call.to_explore[Len(call.to_explore)]
           chars == DOMAIN Row(call.self, popped[1])
       IN \E items \in {s \in [1..Cardinality(chars) -> chars] :
                           \A i, j \in DOMAIN s : i # j => s[i] # s[j]} :
             call' = ConstructIsomorphismItems(
                         [call EXCEPT !.to_explore = SubSeq(@, 1, Len(@) - 1)],
                         popped[1], popped[2], items, 1, call.other)
    /\ pc' = IF call'.none THEN "returned" ELSE pc
    /\ UNCHANGED <<built, ops, regex, string, dfa, nodes, node, gen>>

\* Lines 282-283: the assertion and the return of the mapping.
ConstructIsomorphismReturn ==
    /\ pc = "construct_isomorphism"
    /\ call.to_explore = <<>>
    /\ pc' = IF Cardinality(DOMAIN call.isomorphism) = Cardinality(DOMAIN call.self.node)
             THEN "returned" ELSE "raised"
    /\ UNCHANGED <<built, ops, regex, string, dfa, nodes, node, gen, call>>

InitIso ==
    /\ built = EMPTY
    /\ ops = 0
    /\ regex = EMPTY
    /\ string = <<>>
    /\ nodes = {}
    /\ node = EMPTY
    /\ dfa \in IsoDFAs
    /\ gen = NoGen
    /\ call = NoCall
    /\ pc = "idle"

NextIso ==
    \/ ConstructIsomorphismCall
    \/ MinimizedIsomorphismCall
    \/ ConstructIsomorphismLoop
    \/ ConstructIsomorphismReturn

SpecIso == InitIso /\ [][NextIso]_vars

\* m is a bijection between the states of d and of e that preserves the
\* start state, the accepting states and the transitions.
IsIsomorphism(m, d, e) ==
    /\ DOMAIN m = DOMAIN d.node
    /\ {m[s] : s \in DOMAIN m} = DOMAIN e.node
    /\ \A s, t \in DOMAIN m : m[s] = m[t] => s = t
    /\ m[d.start] = e.start
    /\ \A s \in DOMAIN m : d.node[s] = e.node[m[s]]
    /\ \A s \in DOMAIN m : \A c \in Range(d.alphabet) :
          m[d.delta[s][c]] = e.delta[m[s]][c]

(***************************************************************************)
(* C12: minimize_dfa(d).construct_isomorphism(minimize_dfa(d')) returns a  *)
(* mapping, not None, iff d and d' accept the same strings.                *)
(***************************************************************************)
C12_MinimizedIsomorphicIffSameLanguage ==
    /\ call.op = "minimize_dfa" => pc # "raised"
    /\ (call.op = "construct_isomorphism" /\ call.original # NoDFA) =>
          /\ pc # "raised"
          /\ pc = "returned" =>
                (~call.none <=>
                    SameLanguageUpTo(dfa, call.original, 2 * MaxIsoStates))

(***************************************************************************)
(* C13: whenever construct_isomorphism returns a mapping, the mapping is a *)
(* bijection between the two state sets that maps start to start and       *)
(* preserves the accepting states and the transitions; it returns None     *)
(* whenever there is no such bijection; it does not raise.                 *)
(***************************************************************************)
C13_IsomorphismSound ==
    call.op = "construct_isomorphism" =>
        /\ pc # "raised"
        /\ pc = "returned" =>
              IF call.none
              THEN ~\E m \in [DOMAIN call.self.node -> DOMAIN call.other.node] :
                       IsIsomorphism(m, call.self, call.other)
              ELSE IsIsomorphism(call.isomorphism, call.self, call.other)

(***************************************************************************)
(* DFA.is_empty, DFA.has_finite_language and DFA.longest_string (dfa.py).  *)
(* dag_longest_path returns one of the longest paths and                   *)
(* next(itervalues(edges)) one of the parallel edges: every choice is      *)
(* followed.                                                               *)
(***************************************************************************)
\* A faulty dag_longest_path that returns a path of a single node.
DagLongestPathsSingle(d, S) == {<<v>> : v \in S}

\* The paths of k edges of the subgraph on S.
RECURSIVE DagPaths(_, _, _)
DagPaths(d, S, k) ==
    IF k = 0 THEN {<<v>> : v \in S}
    ELSE UNION {{Append(p, v) : v \in Successors(d, {p[Len(p)]}) \cap S} :
                p \in DagPaths(d, S, k - 1)}

\* nx.algorithms.dag.dag_longest_path on the acyclic subgraph on S: the
\* paths with the most edges.
DagLongestPaths(d, S) ==
    DagPaths(d, S, CHOOSE k \in 0..Cardinality(S) :
                       /\ DagPaths(d, S, k) # {}
                       /\ DagPaths(d, S, k + 1) = {})

\* Lines 159-163: the strings read along longest_path, one transition of
\* self.succ[state1][state2] for each step.
PathStrings(d, longest_path) ==
    {w \in [1..(Len(longest_path) - 1) -> Range(d.alphabet)] :
        \A i \in 1..(Len(longest_path) - 1) :
            CopiesIn(<<longest_path[i], longest_path[i + 1], w[i]>>, d.edges) > 0}

\* DFA.longest_string: the exception raised ("None" if it returns) and the
\* string returned, for every outcome.
LongestStrings(d) ==
    IF AcceptableStates(d) = {}
    THEN {[raised |-> "EmptyLanguageError", string |-> <<>>]}
    ELSE IF HasCycle(d, AcceptableStates(d))
    THEN {[raised |-> "InfiniteLanguageError", string |-> <<>>]}
    ELSE {[raised |-> "None", string |-> w] :
             w \in UNION {PathStrings(d, longest_path) :
                             longest_path \in DagLongestPaths(d, AcceptableStates(d))}}

\* DFA.is_empty
IsEmptyCall ==
    /\ pc = "idle"
    /\ call' = [op |-> "is_empty", result |-> AcceptableStates(dfa) = {}]
    /\ pc' = "returned"
    /\ UNCHANGED <<built, ops, regex, string, dfa, nodes, node, gen>>

\* DFA.has_finite_language
HasFiniteLanguageCall ==
    /\ pc = "idle"
    /\ call' = [op |-> "has_finite_language", result |->
                    ~HasCycle(dfa, AcceptableStates(dfa))]
    /\ pc' = "returned"
    /\ UNCHANGED <<built, ops, regex, string, dfa, nodes, node, gen>>

\* DFA.longest_string
LongestStringCall ==
    /\ pc = "idle"
    /\ \E outcome \in LongestStrings(dfa) :
          /\ call' = [op |-> "longest_string", raised |-> outcome.raised,
                      result |-> outcome.string]
          /\ pc' = IF outcome.raised = "None" THEN "returned" ELSE "raised"
    /\ UNCHANGED <<built, ops, regex, string, dfa, nodes, node, gen>>

NextAnalysis ==
    \/ IsEmptyCall
    \/ HasFiniteLanguageCall
    \/ LongestStringCall

SpecAnalysis == InitEquiv /\ [][NextAnalysis]_vars

\* delta*(state, w)
RECURSIVE Run(_, _, _)
Run(d, state, w) ==
    IF w = <<>> THEN state ELSE Run(d, d.delta[state][Head(w)], Tail(w))

\* The strings over d's alphabet of the lengths lo..hi.
StringsOf(d, lo, hi) == UNION {[1..k -> Range(d.alphabet)] : k \in lo..hi}

\* The states reachable from the start from which a string is accepted.
LiveStates(d) ==
    LET n == Cardinality(DOMAIN d.node)
    IN {state \in {Run(d, d.start, u) : u \in StringsOf(d, 0, n - 1)} :
           \E v \in StringsOf(d, 0, n - 1) : AcceptsFrom(d, state, v)}

(***************************************************************************)
(* C14: is_empty is true iff the DFA accepts no string, i.e. iff no        *)
(* accepting state is reachable from the start state, the start itself     *)
(* counting as reachable.                                                  *)
(***************************************************************************)
C14_IsEmptyIffNoString ==
    (call.op = "is_empty" /\ pc = "returned") =>
        /\ call.result = LanguageEmpty(dfa)
        /\ call.result =
              ~\E u \in StringsOf(dfa, 0, Cardinality(DOMAIN dfa.node) - 1) :
                  dfa.node[Run(dfa, dfa.start, u)]

\* is_empty has returned True for a DFA with an accepting state that cannot
\* be reached
C14_Witness ==
    /\ call.op = "is_empty"
    /\ pc = "returned"
    /\ call.result
    /\ \E state \in DOMAIN dfa.node : dfa.node[state]

(***************************************************************************)
(* C15: has_finite_language is true iff the set of accepted strings is     *)
(* finite (the empty language is finite), which holds iff no state that is *)
(* reachable from the start and can reach an accepting state lies on a     *)
(* cycle, a self-loop included.                                            *)
(***************************************************************************)
C15_FiniteIffAcyclic ==
    (call.op = "has_finite_language" /\ pc = "returned") =>
        /\ call.result = ~LanguageInfinite(dfa)
        /\ call.result =
              ~\E state \in LiveStates(dfa) :
                  \E w \in StringsOf(dfa, 1, Cardinality(DOMAIN dfa.node)) :
                      /\ Run(dfa, state, w) = state
                      /\ \A i \in 1..Len(w) :
                            Run(dfa, state, SubSeq(w, 1, i)) \in LiveStates(dfa)

\* has_finite_language has returned True for a DFA with a cycle off the live
\* states and a non-empty language
C15_Witness ==
    /\ call.op = "has_finite_language"
    /\ pc = "returned"
    /\ call.result
    /\ ~LanguageEmpty(dfa)

(***************************************************************************)
(* C16: longest_string raises EmptyLanguageError iff the language is       *)
(* empty and InfiniteLanguageError iff it is infinite; otherwise it        *)
(* returns a string that the DFA accepts, read from the start state, and   *)
(* no accepted string is longer.                                           *)
(***************************************************************************)
C16_LongestString ==
    call.op = "longest_string" =>
        /\ (call.raised = "EmptyLanguageError") = LanguageEmpty(dfa)
        /\ (call.raised = "InfiniteLanguageError") = LanguageInfinite(dfa)
        /\ call.raised = "None" =>
              /\ AcceptsFrom(dfa, dfa.start, call.result)
              /\ \A w \in StringsOf(dfa, Len(call.result) + 1,
                                    2 * Cardinality(DOMAIN dfa.node)) :
                    ~AcceptsFrom(dfa, dfa.start, w)

\* longest_string has returned a string of two characters
C16_Witness ==
    /\ call.op = "longest_string"
    /\ pc = "returned"
    /\ Len(call.result) = 2

(***************************************************************************)
(* The algebraic laws of the constructors.  R is the term built so far, S  *)
(* and T are leaves; each law is evaluated with R in every position, and   *)
(* both sides are kept in `call` for comparison with ==, the equality of   *)
(* identity tuples.                                                        *)
(***************************************************************************)
MaxOpsLaw == 2

\* The operands of the constructors that build R, and the operands S and T
\* of the laws.
LawLeaves ==
    {EPSILON, DOT, CharSetNew({1}, FALSE), CharSetNew({1}, TRUE),
     LookAheadNew(CharSetNew({1}, FALSE), EPSILON),
     LookBehindNew(EPSILON, CharSetNew({1}, FALSE))}

\* The third operands T.
LawThirds ==
    {DOT, CharSetNew({1}, TRUE), LookAheadNew(CharSetNew({1}, FALSE), EPSILON)}

\* ~~R
LawInvert ==
    /\ pc = "build" /\ ~IsError(built)
    /\ call' = [op |-> "invert", R |-> built, twice |-> Invert(Invert(built))]
    /\ pc' = "law"
    /\ UNCHANGED <<built, ops, regex, string, dfa, nodes, node, gen>>

\* R | S, S | R, (R | S) | T, R | (S | T), (S | R) | T, S | (R | T),
\* (S | T) | R, S | (T | R)
LawUnion ==
    /\ pc = "build" /\ ~IsError(built)
    /\ \E S \in LawLeaves, T \in LawThirds :
          call' = [op |-> "union", R |-> built, S |-> S, T |-> T,
                   commuted |-> <<Or(built, S), Or(S, built)>>,
                   first |-> <<Or(Or(built, S), T), Or(built, Or(S, T))>>,
                   second |-> <<Or(Or(S, built), T), Or(S, Or(built, T))>>,
                   third |-> <<Or(Or(S, T), built), Or(S, Or(T, built))>>]
    /\ pc' = "law"
    /\ UNCHANGED <<built, ops, regex, string, dfa, nodes, node, gen>>

\* The same with &.
LawIntersect ==
    /\ pc = "build" /\ ~IsError(built)
    /\ \E S \in LawLeaves, T \in LawThirds :
          call' = [op |-> "intersect", R |-> built, S |-> S, T |-> T,
                   commuted |-> <<And(built, S), And(S, built)>>,
                   first |-> <<And(And(built, S), T), And(built, And(S, T))>>,
                   second |-> <<And(And(S, built), T), And(S, And(built, T))>>,
                   third |-> <<And(And(S, T), built), And(S, And(T, built))>>]
    /\ pc' = "law"
    /\ UNCHANGED <<built, ops, regex, string, dfa, nodes, node, gen>>

\* (R + S) + T, R + (S + T), (S + R) + T, S + (R + T), (S + T) + R,
\* S + (T + R)
LawConcat ==
    /\ pc = "build" /\ ~IsError(built)
    /\ \E S \in LawLeaves, T \in LawThirds :
          call' = [op |-> "concat", R |-> built, S |-> S, T |-> T,
                   first |-> <<Add(Add(built, S), T), Add(built, Add(S, T))>>,
                   second |-> <<Add(Add(S, built), T), Add(S, Add(built, T))>>,
                   third |-> <<Add(Add(S, T), built), Add(S, Add(T, built))>>]
    /\ pc' = "law"
    /\ UNCHANGED <<built, ops, regex, string, dfa, nodes, node, gen>>

\* R | EMPTY, R + EPSILON, EPSILON + R, R + EMPTY, R & EMPTY, R & EPSILON
LawUnits ==
    /\ pc = "build" /\ ~IsError(built)
    /\ call' = [op |-> "units", R |-> built,
                or_empty |-> Or(built, EMPTY),
                add_epsilon |-> Add(built, EPSILON),
                epsilon_add |-> Add(EPSILON, built),
                add_empty |-> Add(built, EMPTY),
                and_empty |-> And(built, EMPTY),
                and_epsilon |-> And(built, EPSILON),
                accepting |-> Accepting(built)]
    /\ pc' = "law"
    /\ UNCHANGED <<built, ops, regex, string, dfa, nodes, node, gen>>

\* ~(R | S), ~R & ~S, ~(R & S), ~R | ~S, and the same with S first
LawDeMorgan ==
    /\ pc = "build" /\ ~IsError(built)
    /\ \E S \in LawLeaves :
          call' = [op |-> "de_morgan", R |-> built, S |-> S,
                   R_or_S |-> Or(built, S),
                   of_union |-> <<Invert(Or(built, S)),
                                  And(Invert(built), Invert(S))>>,
                   of_union_commuted |-> <<Invert(Or(S, built)),
                                           And(Invert(S), Invert(built))>>,
                   of_intersect |-> <<Invert(And(built, S)),
                                      Or(Invert(built), Invert(S))>>,
                   of_intersect_commuted |-> <<Invert(And(S, built)),
                                               Or(Invert(S), Invert(built))>>]
    /\ pc' = "law"
    /\ UNCHANGED <<built, ops, regex, string, dfa, nodes, node, gen>>

\* Star(R), and whether it matches the empty string
LawStar ==
    /\ pc = "build" /\ ~IsError(built)
    /\ call' = [op |-> "star", R |-> built, star |-> StarNew(built),
                matches_empty |-> Accepting(StarNew(built))]
    /\ pc' = "law"
    /\ UNCHANGED <<built, ops, regex, string, dfa, nodes, node, gen>>

\* The CharSets given to Intersection next to R: a, b, [ab], [^a], [^b].
LawCharSets ==
    {CharSetNew(chars, FALSE) : chars \in (SUBSET Chars) \ {{}}}
        \cup {CharSetNew({c}, TRUE) : c \in Chars}

\* Intersection(R, S) and Intersection(R, S, T) for CharSets S and T
LawIntersectCharSets ==
    /\ pc = "build" /\ ~IsError(built)
    /\ \E children \in [1..1 -> LawCharSets] \cup [1..2 -> LawCharSets] :
          call' = [op |-> "intersect_charsets", R |-> built,
                   children |-> <<built>> \o children,
                   result |-> Intersection(<<built>> \o children)]
    /\ pc' = "law"
    /\ UNCHANGED <<built, ops, regex, string, dfa, nodes, node, gen>>

NextLaws ==
    \/ ApplyAddRight(LawLeaves, MaxOpsLaw)
    \/ ApplyAddLeft(LawLeaves, MaxOpsLaw)
    \/ ApplyOr(LawLeaves, MaxOpsLaw)
    \/ ApplyAnd(LawLeaves, MaxOpsLaw)
    \/ ApplyInvert(MaxOpsLaw)
    \/ ApplyStar(MaxOpsLaw)
    \/ ApplyLookAhead(LawLeaves, MaxOpsLaw)
    \/ ApplyLookBehind(LawLeaves, MaxOpsLaw)
    \/ LawInvert
    \/ LawUnion
    \/ LawIntersect
    \/ LawConcat
    \/ LawUnits
    \/ LawDeMorgan
    \/ LawStar
    \/ LawIntersectCharSets

SpecLaws == InitLookaround /\ [][NextLaws]_vars

(***************************************************************************)
(* C17: for every term R, ~~R == R.                                        *)
(***************************************************************************)
C17_ComplementInvolution ==
    call.op = "invert" => call.twice = call.R

(***************************************************************************)
(* C18: | and & do not depend on the order or the grouping of their        *)
(* operands: R | S == S | R, (R | S) | T == R | (S | T), and the same      *)
(* for &.                                                                  *)
(***************************************************************************)
C18_UnionIntersectCommuteAssociate ==
    call.op \in {"union", "intersect"} =>
        /\ call.commuted[1] = call.commuted[2]
        /\ call.first[1] = call.first[2]
        /\ call.second[1] = call.second[2]
        /\ call.third[1] = call.third[2]

(***************************************************************************)
(* C19: + is associative up to ==: (R + S) + T == R + (S + T), also for    *)
(* terms that are or contain LookAhead or LookBehind and for unions with   *)
(* lookahead children.                                                     *)
(***************************************************************************)
C19_ConcatAssociative ==
    call.op = "concat" =>
        /\ call.first[1] = call.first[2]
        /\ call.second[1] = call.second[2]
        /\ call.third[1] = call.third[2]

C21_DeMorgan ==
    call.op = "de_morgan" =>
        /\ call.of_union[1] = call.of_union[2]
        /\ call.of_union_commuted[1] = call.of_union_commuted[2]
        /\ call.of_intersect[1] = call.of_intersect[2]
        /\ call.of_intersect_commuted[1] = call.of_intersect_commuted[2]

(***************************************************************************)
(* C22: Star(EMPTY) and Star(EPSILON) are both EPSILON, so that the star   *)
(* of either matches the empty string; the star of any other term is a     *)
(* Star node over that term.                                               *)
(***************************************************************************)
C22_StarOfEmptyAndEpsilon ==
    call.op = "star" =>
        /\ call.R \in {EMPTY, EPSILON} =>
              call.star = EPSILON /\ call.matches_empty = TRUE
        /\ call.R \notin {EMPTY, EPSILON} => call.star = <<"Star", call.R>>

(***************************************************************************)
(* The normal form of terms.                                               *)
(***************************************************************************)
RECURSIVE NormalForm(_)
NormalForm(t) ==
    CASE IsConcatenation(t) ->
            /\ Len(t[2]) >= 2
            /\ \A i \in DOMAIN t[2] :
                  /\ ~IsConcatenation(t[2][i])
                  /\ t[2][i] \notin {EMPTY, EPSILON}
                  /\ NormalForm(t[2][i])
      [] IsUnion(t) \/ IsIntersection(t) ->
            /\ Len(t[2]) >= 2
            /\ \A i \in DOMAIN t[2] :
                  /\ Tag(t[2][i]) # Tag(t)
                  /\ NormalForm(t[2][i])
            /\ \A i \in 1..(Len(t[2]) - 1) : Lt(t[2][i], t[2][i + 1])
            /\ IsUnion(t) =>
                  /\ EMPTY \notin Range(t[2])
                  /\ Cardinality({i \in DOMAIN t[2] :
                         IsCharSet(t[2][i]) /\ ~t[2][i][2]}) <= 1
      [] IsComplement(t) ->
            /\ ~IsUnion(t[2]) /\ ~IsIntersection(t[2]) /\ ~IsComplement(t[2])
            /\ NormalForm(t[2])
      [] IsStar(t) ->
            /\ t[2] \notin {EMPTY, EPSILON}
            /\ NormalForm(t[2])
      [] IsLookAhead(t) \/ IsLookBehind(t) ->
            NormalForm(t[2]) /\ NormalForm(t[3])
      [] OTHER -> TRUE

(***************************************************************************)
(* C23: every term returned by a constructor, and every term reached from  *)
(* it by derivative, is in normal form: no Concatenation, Union or         *)
(* Intersection has a child of its own kind, a Concatenation has at least  *)
(* two children and none is EMPTY or EPSILON, a Union or Intersection has  *)
(* at least two children in strictly increasing order, a Union has no      *)
(* EMPTY child and at most one CharSet that is not negated, a Complement   *)
(* is not over a Union, Intersection or Complement, and a Star is not over *)
(* EMPTY or EPSILON.                                                       *)
(***************************************************************************)
C23_NormalForm ==
    /\ ~IsError(built) => NormalForm(built)
    /\ ~IsError(regex) => NormalForm(regex)

(***************************************************************************)
(* RegexVisitor: parsing a pattern.  A pattern is the parse tree of the    *)
(* grammar REGEX: <<"concatenation", items>>, <<"union", branches>>,       *)
(* <<"group", re>>, <<"lookahead", quantifier, re>>, <<"character", c>>    *)
(* (c a character or Period), <<"quantified", literal>> for literal*, and  *)
(* <<"character_set", negated, <<"set_items", items>>>> with the items     *)
(* <<"set_char", c>> and <<"range", start, end>>.                          *)
(***************************************************************************)
\* The character "." of a pattern, which is not one of Chars.
Period == 0

WHATEVER == StarNew(DOT)

\* RegexVisitor.visit_lookahead
VisitLookahead(quantifier, lookaround_re) ==
    CASE quantifier = "?!" ->
            LookAheadNew(Invert(Add(lookaround_re, WHATEVER)), EPSILON)
      [] quantifier = "?=" ->
            LookAheadNew(Add(lookaround_re, WHATEVER), EPSILON)
      [] quantifier = "?<=" ->
            LookBehindNew(EPSILON, Add(WHATEVER, lookaround_re))
      [] quantifier = "?<!" ->
            LookBehindNew(EPSILON, Invert(Add(WHATEVER, lookaround_re)))

\* NodeVisitor.visit: the visit_* method of each node, applied to the visited
\* children.
RECURSIVE Visit(_)
Visit(n) ==
    CASE n[1] = "concatenation" ->
            \* reduce(operator.add, [re for [re] in children], EPSILON)
            IF n[2] = <<>> THEN EPSILON
            ELSE Add(Visit(<<"concatenation", SubSeq(n[2], 1, Len(n[2]) - 1)>>),
                     Visit(n[2][Len(n[2])]))
      [] n[1] = "union" ->
            \* reduce(operator.or_, disjuncts)
            IF Len(n[2]) = 1 THEN Visit(n[2][1])
            ELSE Or(Visit(<<"union", SubSeq(n[2], 1, Len(n[2]) - 1)>>),
                    Visit(n[2][Len(n[2])]))
      [] n[1] = "group" -> Visit(n[2])
      [] n[1] = "lookahead" -> VisitLookahead(n[2], Visit(n[3]))
      [] n[1] = "quantified" -> StarNew(Visit(n[2]))
      [] n[1] = "character" ->
            IF n[2] = Period THEN DOT ELSE CharSetNew({n[2]}, FALSE)
      [] n[1] = "range" ->
            \* CharSet([chr(i) for i in range(ord(start), ord(end) + 1)])
            CharSetNew(n[2]..n[3], FALSE)
      [] n[1] = "set_char" -> CharSetNew({n[2]}, FALSE)
      [] n[1] = "set_items" ->
            \* reduce(operator.or_, items)
            IF Len(n[2]) = 1 THEN Visit(n[2][1])
            ELSE Or(Visit(<<"set_items", SubSeq(n[2], 1, Len(n[2]) - 1)>>),
                    Visit(n[2][Len(n[2])]))
      [] n[1] = "character_set" ->
            IF n[2] THEN CharSetNew(Visit(n[3])[3], TRUE) ELSE Visit(n[3])

(***************************************************************************)
(* The patterns that are parsed.                                           *)
(***************************************************************************)
MaxPatternItems == 3

Character(c) == <<"character", c>>

\* a, b, ., .*
PatternLiterals ==
    {Character(c) : c \in Chars} \cup {Character(Period)}
        \cup {<<"quantified", Character(Period)>>}

\* (?=a), (?!a), (?<=a), (?<!a), and the same with b
PatternLookarounds ==
    {<<"lookahead", q, <<"concatenation", <<Character(c)>>>>>> :
         q \in {"?=", "?!", "?<=", "?<!"}, c \in Chars}

PatternItems == PatternLiterals \cup PatternLookarounds

\* (xy) and (x|y) for items x and y
PatternGroups ==
    {<<"group", <<"concatenation", <<x, y>>>>>> : x, y \in PatternItems}
        \cup {<<"group", <<"union", <<<<"concatenation", <<x>>>>,
                                      <<"concatenation", <<y>>>>>>>>>> :
                  x, y \in PatternItems}

\* [a-a], [a-b], [b-a], ..., and [ab-a], a single character before a range
PatternCharacterSets ==
    {<<"character_set", FALSE, <<"set_items", <<<<"range", s, e>>>>>>>> :
         s, e \in Chars}
        \cup {<<"character_set", FALSE,
                <<"set_items", <<<<"set_char", c>>, <<"range", s, e>>>>>>>> :
                  c, s, e \in Chars}

\* Concatenations of up to MaxPatternItems items, of one group and an item
\* in either order, and of a character set and a literal.
Patterns ==
    {<<"concatenation", items>> :
         items \in UNION {[1..k -> PatternItems] : k \in 0..MaxPatternItems}}
        \cup {<<"concatenation", <<g>>>> : g \in PatternGroups}
        \cup {<<"concatenation", <<g, x>>>> : g \in PatternGroups, x \in PatternItems}
        \cup {<<"concatenation", <<x, g>>>> : g \in PatternGroups, x \in PatternItems}
        \cup {<<"concatenation", <<s>>>> : s \in PatternCharacterSets}
        \cup {<<"concatenation", <<s, x>>>> :
                  s \in PatternCharacterSets, x \in PatternLiterals}

\* RegexVisitor().parse(pattern), followed by match on the term it returns.
Parse ==
    /\ pc = "idle"
    /\ \E pattern \in Patterns :
          /\ built' = Visit(pattern)
          /\ call' = [op |-> "parse", pattern |-> pattern,
                      raised |-> IF IsError(Visit(pattern))
                                 THEN "TypeError" ELSE "None"]
    /\ regex' = built'
    /\ pc' = "match"
    /\ UNCHANGED <<ops, string, dfa, nodes, node, gen>>

\* CharRangeMatcher(start, end) of revex/machine.py, which that module's
\* visitor builds for a range.
CharRangeMatcherInit ==
    /\ pc = "idle"
    /\ \E start, end \in Chars :
          call' = [op |-> "CharRangeMatcher",
                   pattern |-> <<"range", start, end>>,
                   raised |-> IF start > end THEN "ValueError" ELSE "None"]
    /\ pc' = "done"
    /\ UNCHANGED <<built, ops, regex, string, dfa, nodes, node, gen>>

InitParse ==
    /\ built = EMPTY
    /\ ops = 0
    /\ regex = EMPTY
    /\ string = <<>>
    /\ dfa = NoDFA
    /\ nodes = {}
    /\ node = EMPTY
    /\ gen = NoGen
    /\ call = NoCall
    /\ pc = "idle"

NextParse ==
    \/ Parse
    \/ CharRangeMatcherInit
    \/ MatchStep

SpecParse == InitParse /\ [][NextParse]_vars

(***************************************************************************)
(* The reference semantics of a pattern: Ends(n, w, i) is the set of       *)
(* positions where a match of n that starts at position i of w may end.    *)
(***************************************************************************)
RECURSIVE Ends(_, _, _)
Ends(n, w, i) ==
    CASE n[1] = "concatenation" ->
            IF n[2] = <<>> THEN {i}
            ELSE UNION {Ends(n[2][Len(n[2])], w, j) :
                     j \in Ends(<<"concatenation",
                                  SubSeq(n[2], 1, Len(n[2]) - 1)>>, w, i)}
      [] n[1] = "union" -> UNION {Ends(n[2][k], w, i) : k \in DOMAIN n[2]}
      [] n[1] = "group" -> Ends(n[2], w, i)
      [] n[1] = "lookahead" ->
            LET holds ==
                    CASE n[2] = "?=" -> Ends(n[3], w, i) # {}
                      [] n[2] = "?!" -> Ends(n[3], w, i) = {}
                      [] n[2] = "?<=" -> \E k \in 0..i : i \in Ends(n[3], w, k)
                      [] n[2] = "?<!" -> \A k \in 0..i : i \notin Ends(n[3], w, k)
            IN IF holds THEN {i} ELSE {}
      [] n[1] = "quantified" ->
            \* literal*: zero or more matches of the literal
            LET RECURSIVE Closure(_)
                Closure(S) ==
                    LET T == S \cup UNION {Ends(n[2], w, j) : j \in S}
                    IN IF T = S THEN S ELSE Closure(T)
            IN Closure({i})
      [] n[1] = "character" ->
            IF i < Len(w) /\ (n[2] = Period \/ w[i + 1] = n[2]) THEN {i + 1} ELSE {}
      [] n[1] = "character_set" ->
            IF i < Len(w)
                 /\ n[2] # (\E k \in DOMAIN n[3][2] :
                               \/ /\ n[3][2][k][1] = "set_char"
                                  /\ w[i + 1] = n[3][2][k][2]
                               \/ /\ n[3][2][k][1] = "range"
                                  /\ w[i + 1] \in n[3][2][k][2]..n[3][2][k][3])
            THEN {i + 1} ELSE {}

\* re.match('^' + pattern + '$', w)
ReferenceMatch(pattern, w) == Len(w) \in Ends(pattern, w, 0)

\* A range whose start is greater than its end, which re.compile rejects.
RECURSIVE HasInvalidCharRange(_)
HasInvalidCharRange(n) ==
    CASE n[1] = "range" -> n[2] > n[3]
      [] n[1] \in {"concatenation", "union", "set_items"} ->
            \E k \in DOMAIN n[2] : HasInvalidCharRange(n[2][k])
      [] n[1] \in {"group", "quantified"} -> HasInvalidCharRange(n[2])
      [] n[1] \in {"lookahead", "character_set"} -> HasInvalidCharRange(n[3])
      [] OTHER -> FALSE

(***************************************************************************)
(* C24: for patterns with lookaround assertions at any position of a       *)
(* concatenation, union branch or group, match agrees with the reference   *)
(* semantics of the fully anchored pattern: (?=X) holds where some prefix  *)
(* of the remaining input matches X, (?!X) where none does, (?<=X) where   *)
(* some suffix of the consumed input matches X, (?<!X) where none does.    *)
(***************************************************************************)
C24_LookaroundMatchesReference ==
    (call.op = "parse" /\ ~HasInvalidCharRange(call.pattern)) =>
        /\ ~IsError(regex)
        /\ Accepting(regex) = ReferenceMatch(call.pattern, string)

(***************************************************************************)
(* C26: parsing a character range whose start is greater than its end is   *)
(* rejected with an error, and no term is produced for it.                 *)
(***************************************************************************)
C26_InvalidCharRangeRejected ==
    (call.op \in {"parse", "CharRangeMatcher"}
        /\ HasInvalidCharRange(call.pattern)) =>
        call.raised \in {"InvalidCharRange", "ValueError"}

(***************************************************************************)
(* C25: Intersection normalizes character sets exactly.  Of CharSets P_i   *)
(* that are not negated and negated CharSets N_j alone, the intersection   *)
(* is EMPTY when (the intersection of the P_i) minus (the union of the     *)
(* N_j) is empty and the CharSet of that difference otherwise; of negated  *)
(* CharSets alone it is the negated CharSet of their union; and when other *)
(* children come with a CharSet that is not negated, it is the CharSet of  *)
(* the characters of the difference by which the derivative of every other *)
(* child is accepting, EMPTY if there is none.                             *)
(***************************************************************************)
C25_IntersectCharSets ==
    call.op = "intersect_charsets" =>
        LET children == Range(call.children)
            P == {c \in children : IsCharSet(c) /\ ~c[2]}
            N == {c \in children : IsCharSet(c) /\ c[2]}
            others == (children \ P) \ N
            difference == {x \in Chars : /\ \A c \in P : x \in c[3]
                                         /\ \A c \in N : x \notin c[3]}
            nullable == {x \in difference :
                            \A o \in others : Accepting(Derivative(o, x)) = TRUE}
        IN /\ (others = {} /\ P # {}) =>
                 call.result = IF difference = {} THEN EMPTY
                               ELSE CharSetNew(difference, FALSE)
           /\ (others = {} /\ P = {}) =>
                 call.result = CharSetNew(UNION {c[3] : c \in N}, TRUE)
           /\ (others # {} /\ P # {}) =>
                 call.result = IF nullable = {} THEN EMPTY
                               ELSE CharSetNew(nullable, FALSE)

(***************************************************************************)
(* Two calls of generate_string on one DeterministicRegularLanguage-        *)
(* Generator.  The second call records what the first returned in          *)
(* call.earlier.                                                           *)
(***************************************************************************)
\* generate_string(length) once more on the same generator, with the length
\* of the call that has returned: lines 188-193 as in GenerateStringCall.
GenerateStringAgain ==
    /\ pc = "returned"
    /\ call.op = "generate_string"
    /\ "earlier" \notin DOMAIN call
    /\ LET length == call.length
           state == dfa.start
           locals == [op |-> "generate_string", length |-> length,
                      state |-> state, chars |-> <<>>,
                      probability |-> One, none |-> FALSE,
                      earlier |-> [none |-> call.none, chars |-> call.chars]]
       IN IF length = 0 /\ ~dfa.node[state]
          THEN /\ call' = [locals EXCEPT !.none = TRUE]
               /\ pc' = "returned"
               /\ gen' = gen
          ELSE LET got == PathWeightsGet(gen.path_weights, dfa, state, length)
               IN /\ gen' = [gen EXCEPT !.path_weights = got.path_weights]
                  /\ call' = [locals EXCEPT !.none = (~got.raised /\ got.value = Zero)]
                  /\ pc' = IF got.raised THEN "raised"
                           ELSE IF got.value = Zero THEN "returned"
                           ELSE "generate_string"
    /\ UNCHANGED <<built, ops, regex, string, dfa, nodes, node>>

InitGenCalls ==
    /\ built = EMPTY
    /\ ops = 0
    /\ regex = EMPTY
    /\ string = <<>>
    /\ nodes = {}
    /\ node = EMPTY
    /\ dfa \in IntegerDFAs
    /\ gen = BaseGenerator("LeastFrequentRoundRobin", dfa)
    /\ call = NoCall
    /\ pc = "idle"

NextGenCalls ==
    \/ GenerateStringCall
    \/ GenerateStringLoop
    \/ GenerateStringReturn
    \/ GenerateStringAgain

SpecGenCalls == InitGenCalls /\ [][NextGenCalls]_vars

\* No step changes a path-weight vector or a distribution that is already in
\* a cache.
CachesAppendOnly ==
    /\ \A n \in DOMAIN gen.path_weights.vects :
          /\ n \in DOMAIN gen'.path_weights.vects
          /\ gen'.path_weights.vects[n] = gen.path_weights.vects[n]
    /\ \A key \in DOMAIN gen.node_length_to_character_dist :
          /\ key \in DOMAIN gen'.node_length_to_character_dist
          /\ gen'.node_length_to_character_dist[key].list
                = gen.node_length_to_character_dist[key].list

(***************************************************************************)
(* C27: the operations of a generator are pure: on one                     *)
(* DeterministicRegularLanguageGenerator, generate_string(L) returns the   *)
(* same string whatever calls were made before, and no step changes a      *)
(* path-weight vector or a distribution that is already in a cache.        *)
(***************************************************************************)
C27_GeneratorPure ==
    /\ [](("earlier" \in DOMAIN call /\ pc = "returned") =>
              /\ call.none = call.earlier.none
              /\ ~call.none => call.chars = call.earlier.chars)
    /\ [][CachesAppendOnly]_vars

(***************************************************************************)
(* A DFA object under arbitrary add_state and add_transition calls, the    *)
(* failing ones included.  `call` holds the arguments of the last call and *)
(* whether it raised ValueError.                                           *)
(***************************************************************************)
MaxDfaStates == 2

DfaStates == 0..(MaxDfaStates - 1)

\* dfa.add_state(state, accepting)
AddStateCall ==
    /\ pc = "dfa"
    /\ \E state \in DfaStates, accepting \in BOOLEAN :
          /\ dfa' = AddState(dfa, state, accepting)
          /\ call' = [op |-> "add_state", state |-> state,
                      accepting |-> accepting]
    /\ UNCHANGED <<built, ops, regex, string, nodes, node, gen, pc>>

\* dfa.add_transition(from_state, to_state, char)
AddTransitionCall ==
    /\ pc = "dfa"
    /\ \E from_state, to_state \in DfaStates, char \in Chars :
          LET raised == AddTransitionRaises(dfa, from_state, to_state, char)
          IN /\ dfa' = IF raised THEN dfa
                       ELSE AddTransition(dfa, from_state, to_state, char)
             /\ call' = [op |-> "add_transition", from_state |-> from_state,
                         to_state |-> to_state, char |-> char,
                         raised |-> raised]
    /\ UNCHANGED <<built, ops, regex, string, nodes, node, gen, pc>>

\* DFA(start=0, start_accepting, alphabet)
InitDfa ==
    /\ built = EMPTY
    /\ ops = 0
    /\ regex = EMPTY
    /\ string = <<>>
    /\ \E start_accepting \in BOOLEAN :
          dfa = DFANew(0, start_accepting, SetToSortedSeq(Chars))
    /\ nodes = {}
    /\ node = EMPTY
    /\ gen = NoGen
    /\ call = NoCall
    /\ pc = "dfa"

NextDfa ==
    \/ AddStateCall
    \/ AddTransitionCall

SpecDfa == InitDfa /\ [][NextDfa]_vars

\* delta[from_state][char] is defined
HasTransition(d, from_state, char) ==
    from_state \in DOMAIN d.delta /\ char \in DOMAIN d.delta[from_state]

\* The entries of delta as edges <<from_state, to_state, char>>.
DeltaEntries(d) ==
    {<<s, d.delta[s][c], c>> : <<s, c>> \in
        {x \in DfaStates \X Chars : HasTransition(d, x[1], x[2])}}

(***************************************************************************)
(* C28: after any sequence of add_state and add_transition calls, failing  *)
(* calls included, every source and target of delta is an added state and  *)
(* the graph has exactly one edge per entry of delta; add_transition       *)
(* raises ValueError exactly when one of the states was not added or       *)
(* (from_state, char) already maps to another state, a call that raises    *)
(* changes nothing, and adding an identical transition again is a no-op.   *)
(***************************************************************************)
C28_DeltaAndGraphConsistent ==
    /\ [](/\ DOMAIN dfa.delta \subseteq DOMAIN dfa.node
          /\ \A e \in DeltaEntries(dfa) : e[2] \in DOMAIN dfa.node
          /\ BagToSet(dfa.edges) = DeltaEntries(dfa)
          /\ \A e \in DeltaEntries(dfa) : CopiesIn(e, dfa.edges) = 1)
    /\ [][call'.op = "add_transition" =>
            LET f == call'.from_state
                t == call'.to_state
                c == call'.char
                missing == f \notin DOMAIN dfa.node \/ t \notin DOMAIN dfa.node
                present == HasTransition(dfa, f, c)
            IN /\ call'.raised = (missing \/ (present /\ dfa.delta[f][c] # t))
               /\ call'.raised => dfa' = dfa
               /\ (~missing /\ present /\ dfa.delta[f][c] = t) =>
                     (~call'.raised /\ dfa' = dfa)
               /\ (~missing /\ ~present) =>
                     /\ HasTransition(dfa', f, c) /\ dfa'.delta[f][c] = t
                     /\ DeltaEntries(dfa') = DeltaEntries(dfa) \cup {<<f, t, c>>}
                     /\ dfa'.node = dfa.node]_vars

\* add_transition has raised for a transition that is already taken, on a
\* DFA with both states and two transitions
C28_Witness ==
    /\ call.op = "add_transition"
    /\ call.raised
    /\ DOMAIN dfa.node = DfaStates
    /\ HasTransition(dfa, call.from_state, call.char)
    /\ dfa.delta[call.from_state][call.char] # call.to_state
    /\ Cardinality(DeltaEntries(dfa)) >= 2

(***************************************************************************)
(* The states of the derivative automaton of a term: the closure of S      *)
(* under derivative by the characters chars.                               *)
(***************************************************************************)
RECURSIVE DerivativeClosure(_, _)
DerivativeClosure(S, chars) ==
    LET T == S \cup {Derivative(s, c) : s \in S, c \in chars}
    IN IF T = S THEN S ELSE DerivativeClosure(T, chars)

(***************************************************************************)
(* C29: the DFA that as_dfa returns does not depend on the order in which  *)
(* the pending states are popped nor on the order of the alphabet: every   *)
(* run ends with the derivatives of the term as states, derivative as the  *)
(* transition function and accepting as the flags; and between iterations  *)
(* every state of the DFA is pending or has all its transitions.           *)
(***************************************************************************)
C29_AsDfaOrderIndependent ==
    /\ pc = "dfa" =>
          LET chars == Range(dfa.alphabet)
              states == DerivativeClosure({dfa.start}, chars)
          IN /\ DOMAIN dfa.node = states
             /\ DOMAIN dfa.delta = states
             /\ \A s \in states :
                   /\ dfa.node[s] = Accepting(s)
                   /\ dfa.delta[s] = [c \in chars |-> Derivative(s, c)]
             /\ dfa.edges = SetToBag({<<s, Derivative(s, c), c>> :
                                          s \in states, c \in chars})
    /\ pc = "as_dfa" =>
          \A s \in DOMAIN dfa.node :
              \/ s \in nodes
              \/ /\ s \in DOMAIN dfa.delta
                 /\ DOMAIN dfa.delta[s] = Range(dfa.alphabet)

\* as_dfa has returned a DFA of four states or more for an alphabet given in
\* descending order
C29_Witness ==
    /\ pc = "dfa"
    /\ string = <<>>
    /\ dfa.alphabet = <<2, 1>>
    /\ Cardinality(DOMAIN dfa.node) >= 4

(***************************************************************************)
(* C30: DiscreteRandomVariable.draw returns, for every r in [0, 1) and     *)
(* every list of weights with a positive total, an index whose weight is   *)
(* positive; so every character that the generate_string of                *)
(* RandomRegularLanguageGenerator appends leads to a state from which a    *)
(* string of the remaining length is accepted.                             *)
(***************************************************************************)
C30_DrawPositiveWeight ==
    /\ []((/\ gen.distribution_type = "DiscreteRandomVariable"
           /\ call.op = "generate_string"
           /\ pc = "generate_string") =>
              AcceptedFrom(dfa, call.state, call.length - Len(call.chars)) # {})
    /\ [][(/\ gen.distribution_type = "DiscreteRandomVariable"
           /\ pc = "generate_string"
           /\ Len(call'.chars) = Len(call.chars) + 1) =>
              LET key == <<call.state, call.length - Len(call.chars)>>
                  dist == gen'.node_length_to_character_dist[key]
                  char == call'.chars[Len(call'.chars)]
                  i == CHOOSE k \in DOMAIN dfa.alphabet : dfa.alphabet[k] = char
              IN RatLt(IF i = 1 THEN Zero ELSE dist.list[i - 1], dist.list[i])]_vars

=============================================================================
